---- MODULE Spec2Model ----
(***************************************************************************)
(* A model of pervade.py: the table-of-contents indexer (get_index), the   *)
(* HTML-to-RTF paragraph conversion (rich_textify), the document assembler *)
(* (get_chapter) and the driver (main).                                    *)
(*                                                                         *)
(* Python strings are sequences of one-character strings.  A character     *)
(* outside ASCII is one element named by its code point ("U+00E9").        *)
(***************************************************************************)
EXTENDS Integers, Sequences, FiniteSets, TLC

VARIABLES
    pc,                  \* where the program is
    args,                \* the parsed command line (argparse namespace)
    toc,                 \* which contents page get_page returns to get_index
    n_headings,          \* headings of index_headings consumed so far
    n_links,             \* links of index_chapters consumed so far
    arc_number,          \* get_index: arc_number
    heading_prefix,      \* get_index: heading_prefix
    heading,             \* get_index: text_content() of the heading last read
    link,                \* get_index: text and href of the link last read
    index,               \* get_index: index
    chapter_number,      \* get_index: chapter_number
    previous_arc_number, \* get_index: previous_arc_number
    line,                \* get_chapter: line, the paragraph being converted
    rich_line,           \* get_chapter: rich_line, what rich_textify gave
    selected_arcs,       \* main: selected_arcs
    selected_chapters,   \* main: selected_chapters
    chapter_position,    \* main: chapter_position
    n_arcs,              \* items of selected_arcs consumed so far
    n_chapters,          \* items of selected_chapters consumed so far
    files,               \* the working directory: path -> blocks written
    calls,               \* the calls of get_chapter made so far
    output,              \* what main has printed
    error                \* the exception that ended the program, or "" for none

index_vars == <<toc, n_headings, n_links, arc_number, heading_prefix, heading, link, index,
                chapter_number, previous_arc_number>>

main_vars == <<selected_arcs, selected_chapters, chapter_position, n_arcs, n_chapters,
               files, calls, output>>

vars == <<pc, args, error, line, rich_line, index_vars, main_vars>>

---------------------------------------------------------------------------
(* Bounds of the model. *)

\* Headings a synthetic contents page holds at most.
MaxHeadings == 3

\* Links a contents page holds at most.
MaxLinks == 3

\* The chapters of the first arc of the contents page main is run on.
MaxChapters == 3

---------------------------------------------------------------------------
(* Strings. *)

Digits == {"1", "2", "3", "4", "5", "6", "7", "8", "9", "0"}

DigitValue(c) ==
    CASE c = "0" -> 0 [] c = "1" -> 1 [] c = "2" -> 2 [] c = "3" -> 3
      [] c = "4" -> 4 [] c = "5" -> 5 [] c = "6" -> 6 [] c = "7" -> 7
      [] c = "8" -> 8 [] c = "9" -> 9

\* s[i:j] of Python for 0 <= i, with j counted from the end when negative.
Slice(s, i, j) ==
    LET hi == IF j < 0 THEN Len(s) + j ELSE IF j > Len(s) THEN Len(s) ELSE j
    IN  IF hi <= i THEN <<>> ELSE SubSeq(s, i + 1, hi)

\* Whether p occurs in s at the 1-based position i.
MatchAt(s, i, p) ==
    /\ i >= 1
    /\ i + Len(p) - 1 <= Len(s)
    /\ \A k \in 1..Len(p) : s[i + k - 1] = p[k]

\* A local name: F(v) with v evaluated once.
With(v, F(_)) == CHOOSE r \in {F(val) : val \in {v}} : TRUE

\* The least of a set of positions, or 0 for the empty set.
Least(found) ==
    IF found = {} THEN 0 ELSE CHOOSE j \in found : \A k \in found : j <= k

\* The least position >= i where p occurs in s, or 0.
FindFrom(s, i, p) ==
    With({j \in i..(Len(s) - Len(p) + 1) : MatchAt(s, j, p)}, Least)

\* str.find: the 0-based position of the first occurrence, or -1.
Find(s, p) == FindFrom(s, 1, p) - 1

\* p in s.
Contains(s, p) == FindFrom(s, 1, p) # 0

\* str.replace(old, new), and re.sub of a pattern that is one literal:
\* every occurrence, left to right, none overlapping.
RECURSIVE ReplaceFrom(_, _, _, _)
ReplaceFrom(s, i, old, new) ==
    With(FindFrom(s, i, old), LAMBDA at :
        IF at = 0 THEN SubSeq(s, i, Len(s))
        ELSE SubSeq(s, i, at - 1) \o new \o ReplaceFrom(s, at + Len(old), old, new))

Replace(s, old, new) == ReplaceFrom(s, 1, old, new)

\* The characters str.strip() removes that the model's texts hold.
Whitespace == {" ", "\n"}

RECURSIVE LStrip(_)
LStrip(s) ==
    IF s # <<>> /\ Head(s) \in Whitespace THEN LStrip(Tail(s)) ELSE s

RECURSIVE RStrip(_)
RStrip(s) ==
    IF s # <<>> /\ s[Len(s)] \in Whitespace
    THEN RStrip(SubSeq(s, 1, Len(s) - 1)) ELSE s

Strip(s) == RStrip(LStrip(s))

\* int(s) for a string of decimal digits; "ValueError" for any other string
\* of the model (the empty string, a string with a letter in it).
RECURSIVE DigitsValue(_)
DigitsValue(s) ==
    IF s = <<>> THEN 0
    ELSE 10 * DigitsValue(SubSeq(s, 1, Len(s) - 1)) + DigitValue(s[Len(s)])

IsInt(s) == s # <<>> /\ \A k \in 1..Len(s) : s[k] \in Digits

Str ==
    [ Donation_open |-> <<"(", "D", "o", "n", "a", "t", "i", "o", "n", " ">>,
      paren_open |-> <<"(">>,
      Interlude |-> <<"I", "n", "t", "e", "r", "l", "u", "d", "e">>,
      Interlude_semi |-> <<"I", "n", "t", "e", "r", "l", "u", "d", "e", ";", " ">>,
      E_dot |-> <<"E", ".">>,
      E_2 |-> <<"E", ".", "2">>,
      dot |-> <<".">>,
      space |-> <<" ">>,
      newline |-> <<"\n">>,
      span_close |-> <<"<", "/", "s", "p", "a", "n", ">">>,
      gt |-> <<">">>,
      style |-> <<"s", "t", "y", "l", "e", "=", "\"">>,
      quote |-> <<"\"">>,
      p_open |-> <<"<", "p">> ]

---------------------------------------------------------------------------
(* get_index: the contents page. *)

\* Heading texts of a contents page, as text_content() returns them.
HeadingText ==
    [ empty |-> <<>>,
      blank |-> <<" ">>,
      digit |-> <<"2", ".">>,
      numeral |-> <<"7">>,
      single |-> <<"A">>,
      plain |-> <<"r", "c", ":", "G">>,
      sentinel |-> <<"E", ".", "x">>,
      newline |-> <<"E", "p", ":", "T", "\n", "z">>,
      arc |-> <<"A", "r", "c", ":", "G">>,
      epilogue |-> <<"E", "p", ":", "T">> ]

HeadingTexts == {HeadingText.empty, HeadingText.blank, HeadingText.digit, HeadingText.numeral, HeadingText.single, HeadingText.plain, HeadingText.sentinel, HeadingText.newline}

\* The arc number of the terminal arc (chapter links "E...").
SentinelArc == 31

\* The headings of the source site's contents page: thirty numbered arcs and
\* the epilogue, every one accepted as an arc title.
FullHeading(i) == IF i < SentinelArc THEN HeadingText.arc ELSE HeadingText.epilogue

\* The hrefs of chapter links: scheme, host, port and path as urlsplit
\* separates them; an href with no scheme is "host/path".
Url ==
    [ abs |-> [scheme |-> "https", host |-> "parahumans.wordpress.com", port |-> "",
          path |-> <<"/", "a">>],
      rel |-> [scheme |-> "", host |-> "parahumans.wordpress.com", port |-> "", path |-> <<"/",
          "U+00E9">>],
      port |-> [scheme |-> "http", host |-> "localhost", port |-> "8080", path |-> <<"/", "c">>],
      teneral_e_2 |-> [scheme |-> "https", host |-> "parahumans.wordpress.com", port |-> "",
          path |-> <<"/", "2", "0", "1", "3", "/", "1", "1", "/", "0", "5", "/", "t", "e", "n",
          "e", "r", "a", "l", "-", "e", "-", "2", "/">>] ]

\* Link texts of a contents page.
LinkText ==
    [ empty |-> <<>>,
      other |-> <<"A", "b", "o", "u", "t">>,
      one_one |-> <<"1", ".", "1">>,
      one_two |-> <<"1", ".", "2", " ", "(", "D", "o", "n", "a", "t", "i", "o", "n", " ", "x",
          ")">>,
      two_x |-> <<"2", ".", "x", " ", "(", "I", "n", "t", "e", "r", "l", "u", "d", "e", " ",
          "2", ";", " ", "B", ")">>,
      E_1 |-> <<"E", ".", "1">>,
      E_3 |-> <<"E", ".", "3">>,
      nodot |-> <<"1", "2">>,
      bare |-> <<"7">> ]

\* The links (text, href) a contents page is made of.
Links ==
    { [text |-> LinkText.empty, href |-> Url.abs],
      [text |-> LinkText.other, href |-> Url.abs],
      [text |-> LinkText.one_one, href |-> Url.abs],
      [text |-> LinkText.one_two, href |-> Url.rel],
      [text |-> LinkText.two_x, href |-> Url.abs],
      [text |-> LinkText.E_1, href |-> Url.abs],
      [text |-> LinkText.E_3, href |-> Url.rel],
      [text |-> LinkText.nodot, href |-> Url.abs],
      [text |-> LinkText.bare, href |-> Url.abs],
      [text |-> LinkText.one_one, href |-> Url.port] }

\* urllib.parse.quote with the safe characters of iri_to_uri: a character
\* outside ASCII becomes the percent escapes of its UTF-8 bytes.
QuoteChar(c) ==
    IF c = "U+00E9" THEN <<"%", "C", "3", "%", "A", "9">> ELSE <<c>>

RECURSIVE Quote(_)
Quote(s) == IF s = <<>> THEN <<>> ELSE QuoteChar(Head(s)) \o Quote(Tail(s))

\* iri_to_uri: [ok, url].  An authority with a port adds str to bytes, which
\* raises TypeError.
iri_to_uri(iri) ==
    IF iri.port # ""
    THEN [ok |-> FALSE, error |-> "TypeError", url |-> iri]
    ELSE [ok |-> TRUE, error |-> "",
          url |-> [iri EXCEPT !.path = Quote(iri.path)]]

\* 'https://' + chapter_url
WithHttps(url) == [url EXCEPT !.scheme = "https"]

\* re.sub(r'Interlude.+? ', r'Interlude; ', s): "Interlude", one or more
\* characters other than a newline (as few as possible), a space.
RECURSIVE InterludeEnd(_, _)
InterludeEnd(s, j) ==
    \* the least position >= j of a space reached over non-newlines, or 0
    IF j > Len(s) THEN 0
    ELSE IF s[j] = " " THEN j
    ELSE IF s[j] = "\n" THEN 0
    ELSE InterludeEnd(s, j + 1)

RECURSIVE SubInterlude(_, _)
SubInterlude(s, i) ==
    With(FindFrom(s, i, Str.Interlude), LAMBDA at :
    With(at + Len(Str.Interlude), LAMBDA first :
    With(IF at = 0 \/ first > Len(s) \/ s[first] = "\n" THEN 0
         ELSE InterludeEnd(s, first + 1), LAMBDA end :
        IF at = 0 THEN SubSeq(s, i, Len(s))
        ELSE IF end = 0
        THEN SubSeq(s, i, at) \o SubInterlude(s, at + 1)
        ELSE SubSeq(s, i, at - 1) \o Str.Interlude_semi \o SubInterlude(s, end + 1))))

\* The chapter title get_index stores for a link text.
ChapterTitle(chapter_text, faithful) ==
    IF ~faithful
    THEN SubInterlude(Replace(chapter_text, Str.Donation_open, Str.paren_open), 1)
    ELSE chapter_text

\* The value of previous_arc_number before the first chapter link ('' in
\* the source, equal to no arc number).
NoArc == -1

\* HeadingBody with the pending prefix kept when it has been used.
HeadingBodyKeepsPrefix(gi, text_content) ==
    LET heading_text == Strip(text_content)
        accept(title) ==
            [gi EXCEPT !.arc_number = gi.arc_number + 1,
                       !.index = [a \in DOMAIN gi.index \cup {gi.arc_number + 1} |->
                                    IF a = gi.arc_number + 1
                                    THEN [arc |-> title, chapters |-> <<>>]
                                    ELSE gi.index[a]]]
    IN  IF heading_text = <<>> THEN gi
        ELSE IF heading_text[1] \in Digits THEN gi
        ELSE IF gi.heading_prefix # <<>>
        THEN accept(gi.heading_prefix \o heading_text)
        ELSE IF Len(heading_text) = 1
        THEN [gi EXCEPT !.heading_prefix = heading_text]
        ELSE IF Contains(heading_text, Str.newline)
        THEN accept(Strip(SubSeq(heading_text, 1, FindFrom(heading_text, 1, Str.newline) - 1)))
        ELSE IF Slice(heading_text, 0, 2) # Str.E_dot
        THEN accept(heading_text)
        ELSE gi

\* The body of the loop over index_headings, on the state gi of get_index.
HeadingBody(gi, text_content) ==
    LET heading_text == Strip(text_content)
        accept(title) ==
            [gi EXCEPT !.arc_number = gi.arc_number + 1,
                       !.index = [a \in DOMAIN gi.index \cup {gi.arc_number + 1} |->
                                    IF a = gi.arc_number + 1
                                    THEN [arc |-> title, chapters |-> <<>>]
                                    ELSE gi.index[a]]]
    IN  IF heading_text = <<>> THEN gi
        ELSE IF heading_text[1] \in Digits THEN gi
        ELSE IF gi.heading_prefix # <<>>
        THEN [accept(gi.heading_prefix \o heading_text) EXCEPT !.heading_prefix = <<>>]
        ELSE IF Len(heading_text) = 1
        THEN [gi EXCEPT !.heading_prefix = heading_text]
        ELSE IF Contains(heading_text, Str.newline)
        THEN accept(Strip(SubSeq(heading_text, 1, FindFrom(heading_text, 1, Str.newline) - 1)))
        ELSE IF Slice(heading_text, 0, 2) # Str.E_dot
        THEN accept(heading_text)
        ELSE gi

\* The url of an entry whose 'url' key is not set yet.
NoUrl == [scheme |-> "", host |-> "", port |-> "", path |-> <<>>]

\* index[arc][chapter] = entry
SetChapter(idx, arc, chapter, entry) ==
    [idx EXCEPT ![arc].chapters =
        [c \in DOMAIN idx[arc].chapters \cup {chapter} |->
            IF c = chapter THEN entry ELSE idx[arc].chapters[c]]]

\* InjectMissing with the counter left at 2, so that the link replaces 'E.2'.
InjectMissingNoStep(gi) ==
    IF gi.arc_number = SentinelArc /\ gi.chapter_number = 2
    THEN IF gi.arc_number \notin DOMAIN gi.index
         THEN [gi EXCEPT !.error = "KeyError"]
         ELSE [gi EXCEPT !.index = SetChapter(gi.index, gi.arc_number, gi.chapter_number,
                                              [chapter |-> Str.E_2, url |-> Url.teneral_e_2])]
    ELSE gi

\* The chapter get_index adds by hand: lines 321-326.
InjectMissing(gi) ==
    IF gi.arc_number = SentinelArc /\ gi.chapter_number = 2
    THEN IF gi.arc_number \notin DOMAIN gi.index
         THEN [gi EXCEPT !.error = "KeyError"]
         ELSE [gi EXCEPT !.index = SetChapter(gi.index, gi.arc_number, gi.chapter_number,
                                              [chapter |-> Str.E_2, url |-> Url.teneral_e_2]),
                         !.chapter_number = gi.chapter_number + 1]
    ELSE gi

\* The arc number of a link text: lines 309-312.
DeriveArc(gi, chapter_text) ==
    IF chapter_text[1] # "E"
    THEN LET numeral == Slice(chapter_text, 0, Find(chapter_text, Str.dot))
         IN  IF IsInt(numeral)
             THEN [gi EXCEPT !.arc_number = DigitsValue(numeral)]
             ELSE [gi EXCEPT !.error = "ValueError"]
    ELSE [gi EXCEPT !.arc_number = SentinelArc]

\* CountChapter with no reset to 1 on a change of arc.
CountChapterNoReset(gi) ==
    [gi EXCEPT !.chapter_number = gi.chapter_number + 1,
               !.previous_arc_number = gi.arc_number]

\* The chapter number of a link: lines 314-318.
CountChapter(gi) ==
    IF gi.arc_number = gi.previous_arc_number
    THEN [gi EXCEPT !.chapter_number = gi.chapter_number + 1]
    ELSE [gi EXCEPT !.chapter_number = 1, !.previous_arc_number = gi.arc_number]

\* The entry of a link: lines 328-341.
StoreChapter(gi, chapter_text, chapter_url, faithful) ==
    IF gi.arc_number \notin DOMAIN gi.index
    THEN [gi EXCEPT !.error = "KeyError"]
    ELSE LET title == ChapterTitle(chapter_text, faithful)
             uri == IF chapter_url.scheme \in {"http", "https"}
                    THEN iri_to_uri(chapter_url)
                    ELSE iri_to_uri(WithHttps(chapter_url))
         IN  IF uri.ok
             THEN [gi EXCEPT !.index = SetChapter(gi.index, gi.arc_number, gi.chapter_number,
                                                  [chapter |-> title, url |-> uri.url])]
             ELSE [gi EXCEPT !.index = SetChapter(gi.index, gi.arc_number, gi.chapter_number,
                                                  [chapter |-> title, url |-> NoUrl]),
                             !.error = uri.error]

\* The body of the loop over index_chapters, on the state gi of get_index.
LinkBody(gi, text_content, chapter_url, faithful) ==
    LET chapter_text == Strip(text_content)
    IN  IF chapter_text = <<>> THEN gi
        ELSE IF chapter_text[1] \notin Digits \cup {"E"} THEN gi
        ELSE LET derived == DeriveArc(gi, chapter_text)
                 counted == CountChapter(derived)
                 injected == InjectMissing(counted)
             IN  IF derived.error # "" THEN derived
                 ELSE IF injected.error # "" THEN injected
                 ELSE StoreChapter(injected, chapter_text, chapter_url, faithful)

\* No link has been read.
NoLink == [text |-> <<>>, href |-> NoUrl]

\* The state of get_index as one record.
GI ==
    [arc_number |-> arc_number, heading_prefix |-> heading_prefix, index |-> index,
     chapter_number |-> chapter_number, previous_arc_number |-> previous_arc_number,
     error |-> error]

\* Lines 281-283 and 301-302.
GIStart ==
    [arc_number |-> 0, heading_prefix |-> <<>>, index |-> <<>>,
     chapter_number |-> 0, previous_arc_number |-> NoArc, error |-> ""]

SetGI(gi) ==
    /\ arc_number' = gi.arc_number
    /\ heading_prefix' = gi.heading_prefix
    /\ index' = gi.index
    /\ chapter_number' = gi.chapter_number
    /\ previous_arc_number' = gi.previous_arc_number
    /\ error' = gi.error

\* An optional value of Python: None, or a value.
None == <<>>
Some(x) == <<x>>

\* No call of rich_textify has returned.
NoLine == [raised |-> "", value |-> <<>>, printed |-> <<>>]

\* main has selected nothing, called nothing and printed nothing.
MainIdle ==
    /\ selected_arcs = <<>>
    /\ selected_chapters = <<>>
    /\ chapter_position = 0
    /\ n_arcs = 0
    /\ n_chapters = 0
    /\ files = <<>>
    /\ calls = <<>>
    /\ output = <<>>

\* args when no option is given.
NoArgs ==
    [arc |-> None, chapter |-> None, download |-> FALSE, join |-> FALSE,
     faithful |-> FALSE, verbose |-> FALSE, debug |-> FALSE]

InitIndex ==
    /\ pc = "headings"
    /\ \E faithful \in BOOLEAN : args = [NoArgs EXCEPT !.faithful = faithful]
    /\ line = <<>>
    /\ rich_line = NoLine
    /\ toc \in {"synthetic", "full"}
    /\ n_headings = 0
    /\ n_links = 0
    /\ arc_number = GIStart.arc_number
    /\ heading_prefix = GIStart.heading_prefix
    /\ heading = <<>>
    /\ link = NoLink
    /\ index = GIStart.index
    /\ chapter_number = GIStart.chapter_number
    /\ previous_arc_number = GIStart.previous_arc_number
    /\ error = ""
    /\ MainIdle

\* One pass of "for heading in index_headings" over a synthetic page.
Heading ==
    /\ pc = "headings"
    /\ toc = "synthetic"
    /\ n_headings < MaxHeadings
    /\ \E text_content \in HeadingTexts :
         /\ heading' = text_content
         /\ SetGI(HeadingBody(GI, text_content))
    /\ n_headings' = n_headings + 1
    /\ UNCHANGED <<main_vars, pc, args, toc, n_links, link, line, rich_line>>

\* One pass of "for heading in index_headings" over the source site's page.
FullPageHeading ==
    /\ pc = "headings"
    /\ toc = "full"
    /\ n_headings < SentinelArc
    /\ heading' = FullHeading(n_headings + 1)
    /\ SetGI(HeadingBody(GI, FullHeading(n_headings + 1)))
    /\ n_headings' = n_headings + 1
    /\ UNCHANGED <<main_vars, pc, args, toc, n_links, link, line, rich_line>>

\* index_headings is exhausted: lines 301-303.
HeadingsDone ==
    /\ pc = "headings"
    /\ toc = "full" => n_headings = SentinelArc
    /\ pc' = "links"
    /\ UNCHANGED <<main_vars, args, error, line, rich_line, index_vars>>

\* One pass of "for chapter in index_chapters".
Link ==
    /\ pc = "links"
    /\ n_links < MaxLinks
    /\ \E chapter \in Links :
         LET gi == LinkBody(GI, chapter.text, chapter.href, args.faithful)
         IN  /\ link' = chapter
             /\ SetGI(gi)
             /\ pc' = IF gi.error # "" THEN "raised" ELSE pc
    /\ n_links' = n_links + 1
    /\ UNCHANGED <<main_vars, args, toc, n_headings, heading, line, rich_line>>

\* index_chapters is exhausted: "return index".
LinksDone ==
    /\ pc = "links"
    /\ pc' = "indexed"
    /\ UNCHANGED <<main_vars, args, error, line, rich_line, index_vars>>

NextIndex == Heading \/ FullPageHeading \/ HeadingsDone \/ Link \/ LinksDone

SpecIndex == InitIndex /\ [][NextIndex]_vars

---------------------------------------------------------------------------
(* Regular expressions of the re module, as far as the source uses them. *)

\* The least position >= from where p occurs in s with no newline between
\* from and it, or 0.
FindInLine(s, from, p) ==
    With(FindFrom(s, from, p), LAMBDA at :
    With(FindFrom(s, from, Str.newline), LAMBDA nl :
        IF at = 0 \/ (nl # 0 /\ nl < at) THEN 0 ELSE at))

\* An opener is a literal, or a literal, ".+?" and a second literal.  The
\* position after the opener matched at i, or 0.
OpenerEnd(s, i, opener) ==
    IF ~MatchAt(s, i, opener.lit) THEN 0
    ELSE IF opener.more = <<>> THEN i + Len(opener.lit)
    ELSE IF i + Len(opener.lit) > Len(s) \/ s[i + Len(opener.lit)] = "\n" THEN 0
    ELSE With(FindInLine(s, i + Len(opener.lit) + 1, opener.more), LAMBDA at :
             IF at = 0 THEN 0 ELSE at + Len(opener.more))

Lit(p) == [lit |-> p, more |-> <<>>]

NoMatch == [at |-> 0, from |-> 0, to |-> 0, end |-> 0]

\* The match of (opener1|opener2|...)(.*?)close that starts at i: the
\* alternatives in their order, the group as short as possible.
RECURSIVE SpanAt(_, _, _, _, _)
SpanAt(s, i, openers, close, k) ==
    IF k > Len(openers) THEN NoMatch
    ELSE With(OpenerEnd(s, i, openers[k]), LAMBDA e :
         With(IF e = 0 THEN 0 ELSE FindInLine(s, e, close), LAMBDA c :
             IF c = 0 THEN SpanAt(s, i, openers, close, k + 1)
             ELSE [at |-> i, from |-> e, to |-> c - 1, end |-> c + Len(close)]))

\* The least position >= i where one of the openers' literals occurs, or 0.
NextOpener(s, i, openers) ==
    Least({FindFrom(s, i, openers[k].lit) : k \in 1..Len(openers)} \ {0})

\* The leftmost match at or after i.
RECURSIVE FirstSpan(_, _, _, _)
FirstSpan(s, i, openers, close) ==
    With(NextOpener(s, i, openers), LAMBDA j :
        IF j = 0 THEN NoMatch
        ELSE With(SpanAt(s, j, openers, close, 1), LAMBDA m :
                 IF m.at # 0 THEN m ELSE FirstSpan(s, j + 1, openers, close)))

\* re.sub(r'(opener1|...)(.*?)close', before + group + after, s), the group
\* dropped when keep is FALSE: the matches left to right, none overlapping.
RECURSIVE SubFrom(_, _, _, _, _, _, _)
SubFrom(s, i, openers, close, before, keep, after) ==
    With(FirstSpan(s, i, openers, close), LAMBDA m :
        IF m.at = 0 THEN SubSeq(s, i, Len(s))
        ELSE SubSeq(s, i, m.at - 1) \o before
             \o (IF keep THEN SubSeq(s, m.from, m.to) ELSE <<>>) \o after
             \o SubFrom(s, m.end, openers, close, before, keep, after))

Sub(s, openers, close, before, keep, after) ==
    SubFrom(s, 1, openers, close, before, keep, after)

\* re.findall(r'open(.+?)close', s): the groups, left to right.
RECURSIVE FindAllFrom(_, _, _, _)
FindAllFrom(s, i, open, close) ==
    With(FirstSpan(s, i, <<[lit |-> open, more |-> close]>>, <<>>), LAMBDA m :
        IF m.at = 0 THEN <<>>
        ELSE <<SubSeq(s, m.at + Len(open), m.end - Len(close) - 1)>>
             \o FindAllFrom(s, m.end, open, close))

\* re.split of a one-character pattern.
RECURSIVE Split(_, _)
Split(s, sep) ==
    With(FindFrom(s, 1, sep), LAMBDA at :
        IF at = 0 THEN <<s>>
        ELSE <<SubSeq(s, 1, at - 1)>> \o Split(SubSeq(s, at + 1, Len(s)), sep))

\* str.lower() of one character.
Lower(c) ==
    CASE c = "A" -> "a" [] c = "B" -> "b" [] c = "C" -> "c" [] c = "D" -> "d" [] c = "E" -> "e" [] c = "F" -> "f"
      [] c = "G" -> "g" [] c = "H" -> "h" [] c = "I" -> "i" [] c = "J" -> "j" [] c = "K" -> "k" [] c = "L" -> "l"
      [] c = "M" -> "m" [] c = "N" -> "n" [] c = "O" -> "o" [] c = "P" -> "p" [] c = "Q" -> "q" [] c = "R" -> "r"
      [] c = "S" -> "s" [] c = "T" -> "t" [] c = "U" -> "u" [] c = "V" -> "v" [] c = "W" -> "w" [] c = "X" -> "x"
      [] c = "Y" -> "y" [] c = "Z" -> "z"
      [] OTHER -> c

Letters ==
    {"a", "b", "c", "d", "e", "f", "g", "h", "i", "j", "k", "l", "m",
     "n", "o", "p", "q", "r", "s", "t", "u", "v", "w", "x", "y", "z"}

\* re.sub(r'[^a-z]', r'', s.lower())
IsLetter(c) == c \in Letters

LettersOnly(s) == SelectSeq([k \in 1..Len(s) |-> Lower(s[k])], IsLetter)

\* '%d' % n for n >= 0.
RECURSIVE Decimal(_)
Decimal(n) ==
    LET d == <<"0", "1", "2", "3", "4", "5", "6", "7", "8", "9">>[(n % 10) + 1]
    IN  IF n < 10 THEN <<d>> ELSE Decimal(n \div 10) \o <<d>>

---------------------------------------------------------------------------
(* The RTF tables: class RTF and class Typesetting. *)

\* RTF.line_prefix
line_prefix ==
    <<"{", "\\", "p", "a", "r", "d", "\\", "s", "l", "3", "6", "0", "\\", "s", "l", "m", "u", "l", "t", "1">>

\* RTF.line_suffix
line_suffix == <<"\\", "p", "a", "r", "}", "\n">>

\* Typesetting.indent
Indent == 360

\* Typesetting.padding
Padding == 1080

\* RTF.special_substitutions: the opening pattern, the closing pattern and
\* what replaces each.
special_substitutions ==
    << [open |-> Lit(<<"<", "s", "p", "a", "n", " ", "s", "t", "y", "l", "e", "=", "\"", "t", "e", "x", "t", "-", "d", "e", "c", "o", "r", "a", "t", "i", "o", "n", ":", "u", "n", "d", "e", "r", "l", "i", "n", "e", ";", "\"", ">">>),
        close |-> Str.span_close, before |-> <<"\\", "u", "l", " ">>, after |-> <<"\\", "u", "l", "0", " ">>],
       [open |-> Lit(<<"<", "s", "p", "a", "n", " ", "s", "t", "y", "l", "e", "=", "\"", "c", "o", "l", "o", "r", ":", "#", "f", "f", "f", "f", "f", "f", ";", "\"", ">">>),
        close |-> Str.span_close, before |-> <<>>, after |-> <<>>],
       [open |-> Lit(<<"<", "s", "p", "a", "n", " ", "s", "t", "y", "l", "e", "=", "\"", "f", "o", "n", "t", "-", "s", "t", "y", "l", "e", ":", "i", "n", "h", "e", "r", "i", "t", ";", "l", "i", "n", "e", "-", "h", "e", "i", "g", "h", "t", ":", "1", ".", "6", "2", "5", ";", "\"", ">">>),
        close |-> Str.span_close, before |-> <<>>, after |-> <<>>],
       [open |-> Lit(<<"<", "s", "p", "a", "n", " ", "s", "t", "y", "l", "e", "=", "\"", "f", "o", "n", "t", "-", "s", "i", "z", "e", ":", "1", "5", "p", "x", ";", "f", "o", "n", "t", "-", "s", "t", "y", "l", "e", ":", "i", "n", "h", "e", "r", "i", "t", ";", "l", "i", "n", "e", "-", "h", "e", "i", "g", "h", "t", ":", "1", ".", "6", "2", "5", ";", "\"", ">">>),
        close |-> Str.span_close, before |-> <<>>, after |-> <<>>],
       [open |-> Lit(<<"<", "s", "p", "a", "n", " ", "s", "t", "y", "l", "e", "=", "\"", "l", "i", "n", "e", "-", "h", "e", "i", "g", "h", "t", ":", "1", "5", "p", "x", ";", "\"", ">">>),
        close |-> Str.span_close, before |-> <<>>, after |-> <<>>],
       [open |-> Lit(<<"<", "s", "p", "a", "n", " ", "s", "t", "y", "l", "e", "=", "\"", "c", "o", "l", "o", "r", ":", "#", "3", "3", "3", "3", "3", "3", ";", "f", "o", "n", "t", "-", "s", "t", "y", "l", "e", ":", "n", "o", "r", "m", "a", "l", ";", "l", "i", "n", "e", "-", "h", "e", "i", "g", "h", "t", ":", "2", "4", "p", "x", ";", "\"", ">">>),
        close |-> Str.span_close, before |-> <<>>, after |-> <<>>],
       [open |-> [lit |-> <<"<", "s", "p", "a", "n", " ", "i", "d", "=", "\"">>, more |-> <<"\"", ">">>],
        close |-> Str.span_close, before |-> <<>>, after |-> <<>>] >>

\* RTF.substitutions: the alternatives that open a match, what closes it
\* after ".*?" (nothing for a pattern of literals) and the replacement.
substitutions ==
    << [open |-> <<Lit(<<"<", "e", "m", ">">>), Lit(<<"<", "i", ">">>)>>, close |-> <<>>, with |-> <<"\\", "i", " ">>],
       [open |-> <<Lit(<<"<", "/", "e", "m", ">">>), Lit(<<"<", "/", "i", ">">>)>>, close |-> <<>>, with |-> <<"\\", "i", "0", " ">>],
       [open |-> <<Lit(<<"<", "s", "t", "r", "o", "n", "g", ">">>), Lit(<<"<", "b", ">">>)>>, close |-> <<>>, with |-> <<"\\", "b", " ">>],
       [open |-> <<Lit(<<"<", "/", "s", "t", "r", "o", "n", "g", ">">>), Lit(<<"<", "/", "b", ">">>)>>, close |-> <<>>, with |-> <<"\\", "b", "0", " ">>],
       [open |-> <<Lit(<<"<", "b", "r", "/", ">">>), Lit(<<"<", "b", "r", " ", "/", ">">>), Lit(<<"<", "b", "r", ">">>)>>, close |-> <<>>,
        with |-> <<"\\", "l", "i", "n", "e", "\n">>],
       [open |-> <<Lit(<<"<", "p">>), Lit(<<"<", "/", "p">>)>>, close |-> Str.gt, with |-> <<>>],
       [open |-> <<Lit(<<"<", "a">>), Lit(<<"<", "/", "a">>)>>, close |-> Str.gt, with |-> <<>>],
       [open |-> <<Lit(<<"<", "d", "e", "l", ">">>)>>, close |-> <<"<", "/", "d", "e", "l", ">">>, with |-> <<>>],
       [open |-> <<Lit(<<"<", "d", "e", "l">>), Lit(<<"<", "/", "d", "e", "l">>), Lit(<<"<", "d", "e", "l", "/">>)>>, close |-> Str.gt,
        with |-> <<>>],
       [open |-> <<Lit(<<"<", "e", "m", "/", ">">>), Lit(<<"<", "i", "/", ">">>)>>, close |-> <<>>, with |-> <<>>],
       [open |-> <<Lit(<<"<", "s", "t", "r", "o", "n", "g", "/", ">">>), Lit(<<"<", "b", "/", ">">>)>>, close |-> <<>>, with |-> <<>>] >>

\* RTF.character_substitutions: the reference and what replaces it.
character_substitutions ==
    << <<<<"&", "#", "1", "6", "0", ";">>, <<"\\", "~">>>>,
       <<<<"&", "#", "1", "9", "9", ";">>, <<"U+00C7">>>>,
       <<<<"&", "#", "2", "2", "0", ";">>, <<"U+00DC">>>>,
       <<<<"&", "#", "2", "2", "4", ";">>, <<"U+00E0">>>>,
       <<<<"&", "#", "2", "2", "5", ";">>, <<"U+00E1">>>>,
       <<<<"&", "#", "2", "2", "7", ";">>, <<"U+00E3">>>>,
       <<<<"&", "#", "2", "2", "8", ";">>, <<"U+00E4">>>>,
       <<<<"&", "#", "2", "3", "2", ";">>, <<"U+00E8">>>>,
       <<<<"&", "#", "2", "3", "3", ";">>, <<"U+00E9">>>>,
       <<<<"&", "#", "2", "3", "4", ";">>, <<"U+00EA">>>>,
       <<<<"&", "#", "2", "3", "5", ";">>, <<"U+00EB">>>>,
       <<<<"&", "#", "2", "3", "6", ";">>, <<"U+00EC">>>>,
       <<<<"&", "#", "2", "3", "7", ";">>, <<"U+00ED">>>>,
       <<<<"&", "#", "2", "4", "2", ";">>, <<"U+00F2">>>>,
       <<<<"&", "#", "2", "4", "5", ";">>, <<"U+00F5">>>>,
       <<<<"&", "#", "2", "4", "6", ";">>, <<"U+00F6">>>>,
       <<<<"&", "#", "2", "4", "9", ";">>, <<"U+00F9">>>>,
       <<<<"&", "#", "2", "5", "0", ";">>, <<"U+00FA">>>>,
       <<<<"&", "#", "2", "5", "2", ";">>, <<"U+00FC">>>>,
       <<<<"&", "#", "2", "5", "7", ";">>, <<"U+0101">>>>,
       <<<<"&", "#", "2", "7", "5", ";">>, <<"U+0113">>>>,
       <<<<"&", "#", "2", "8", "3", ";">>, <<"U+011B">>>>,
       <<<<"&", "#", "2", "9", "9", ";">>, <<"U+012B">>>>,
       <<<<"&", "#", "3", "3", "3", ";">>, <<"U+014D">>>>,
       <<<<"&", "#", "3", "6", "3", ";">>, <<"U+016B">>>>,
       <<<<"&", "#", "4", "6", "2", ";">>, <<"U+01CE">>>>,
       <<<<"&", "#", "7", "7", "0", ";">>, <<"U+0302">>>>,
       <<<<"&", "#", "7", "7", "2", ";">>, <<"U+0304">>>>,
       <<<<"&", "#", "8", "2", "1", "1", ";">>, <<"\\", "e", "n", "d", "a", "s", "h", " ">>>>,
       <<<<"&", "#", "8", "2", "1", "2", ";">>, <<"\\", "e", "m", "d", "a", "s", "h", " ">>>>,
       <<<<"&", "#", "8", "2", "1", "6", ";">>, <<"\\", "l", "q", "u", "o", "t", "e", " ">>>>,
       <<<<"&", "#", "8", "2", "1", "7", ";">>, <<"\\", "r", "q", "u", "o", "t", "e", " ">>>>,
       <<<<"&", "#", "8", "2", "2", "0", ";">>, <<"\\", "l", "d", "b", "l", "q", "u", "o", "t", "e", " ">>>>,
       <<<<"&", "#", "8", "2", "2", "1", ";">>, <<"\\", "r", "d", "b", "l", "q", "u", "o", "t", "e", " ">>>>,
       <<<<"&", "#", "8", "2", "2", "6", ";">>, <<"U+2022">>>>,
       <<<<"&", "#", "8", "2", "3", "0", ";">>, <<".", ".", ".">>>>,
       <<<<"&", "#", "9", "6", "3", "2", ";">>, <<"U+25A0">>>>,
       <<<<"&", "#", "9", "6", "5", "8", ";">>, <<"U+25BA">>>>,
       <<<<"&", "#", "9", "7", "9", "1", ";">>, <<"U+263F">>>>,
       <<<<"&", "#", "9", "8", "3", "0", ";">>, <<"U+2666">>>>,
       <<<<"&", "#", "1", "2", "8", "5", "2", "1", ";">>, <<"U+1F609">>>>,
       <<<<"&", "#", "1", "2", "8", "5", "5", "0", ";">>, <<"U+1F626">>>> >>

\* The navigation texts without the two that end in "line".
BoilerplateWithoutLine ==
    { <<"l", "a", "s", "t", "c", "h", "a", "p", "t", "e", "r">>,
      <<"n", "e", "x", "t", "c", "h", "a", "p", "t", "e", "r">>,
      <<"l", "a", "s", "t", "c", "h", "a", "p", "t", "e", "r", "n", "e", "x", "t", "c", "h", "a", "p", "t", "e", "r">>,
      <<"n", "e", "x", "t", "c", "h", "a", "p", "t", "e", "r", "l", "a", "s", "t", "c", "h", "a", "p", "t", "e", "r">> }

\* The navigation texts rich_textify drops: lines 433-438.
Boilerplate ==
    { <<"l", "a", "s", "t", "c", "h", "a", "p", "t", "e", "r">>,
      <<"n", "e", "x", "t", "c", "h", "a", "p", "t", "e", "r">>,
      <<"l", "a", "s", "t", "c", "h", "a", "p", "t", "e", "r", "n", "e", "x", "t", "c", "h", "a", "p", "t", "e", "r">>,
      <<"n", "e", "x", "t", "c", "h", "a", "p", "t", "e", "r", "l", "a", "s", "t", "c", "h", "a", "p", "t", "e", "r">>,
      <<"l", "a", "s", "t", "c", "h", "a", "p", "t", "e", "r", "n", "e", "x", "t", "c", "h", "a", "p", "t", "e", "r", "l", "i", "n", "e">>,
      <<"n", "e", "x", "t", "c", "h", "a", "p", "t", "e", "r", "l", "a", "s", "t", "c", "h", "a", "p", "t", "e", "r", "l", "i", "n", "e">> }

\* RTF.per_chapter_formatting: the arcs it has a key for, and its one entry.
FormattedArcs == 1..31

HasFormatting(arc, chapter) == arc = 19 /\ chapter = 9

chapter_formatting ==
    [typeface |-> 3, font_size |-> 28, alignment |-> "l", indent |-> 0, space_after |-> 360]

\* The defaults of rich_textify's parameters; space_after=False is 0.
default_formatting ==
    [typeface |-> 0, font_size |-> 0, alignment |-> "j", indent |-> 1, space_after |-> 0]

---------------------------------------------------------------------------
(* rich_textify: one paragraph of HTML to one paragraph of RTF. *)

\* The loop over RTF.special_substitutions, entries lo..hi in their order
\* (the first half, then the second on its result): lines 416-421.
RECURSIVE ApplySpecial(_, _, _)
ApplySpecial(s, lo, hi) ==
    IF lo > hi THEN s
    ELSE IF lo = hi
    THEN With(special_substitutions[lo], LAMBDA sub :
             Sub(s, <<sub.open>>, sub.close, sub.before, TRUE, sub.after))
    ELSE With(ApplySpecial(s, lo, (lo + hi) \div 2), LAMBDA output_string :
             ApplySpecial(output_string, (lo + hi) \div 2 + 1, hi))

\* The loop over RTF.substitutions, entries lo..hi in their order: lines
\* 428-429.
RECURSIVE ApplySubstitutions(_, _, _)
ApplySubstitutions(s, lo, hi) ==
    IF lo > hi THEN s
    ELSE IF lo = hi
    THEN With(substitutions[lo], LAMBDA sub :
             Sub(s, sub.open, sub.close, sub.with, FALSE, <<>>))
    ELSE With(ApplySubstitutions(s, lo, (lo + hi) \div 2), LAMBDA output_string :
             ApplySubstitutions(output_string, (lo + hi) \div 2 + 1, hi))

\* The loop over RTF.character_substitutions, entries lo..hi in their order:
\* lines 430-431.
RECURSIVE ApplyCharacters(_, _, _)
ApplyCharacters(s, lo, hi) ==
    IF lo > hi THEN s
    ELSE IF lo = hi
    THEN Replace(s, character_substitutions[lo][1], character_substitutions[lo][2])
    ELSE With(ApplyCharacters(s, lo, (lo + hi) \div 2), LAMBDA output_string :
             ApplyCharacters(output_string, (lo + hi) \div 2 + 1, hi))

\* re.findall(r'(<span.*?>.*?</span>)', s): line 424.
RECURSIVE UnprocessedSpans(_, _)
UnprocessedSpans(s, i) ==
    With(FirstSpan(s, i, <<Lit(<<"<", "s", "p", "a", "n">>)>>, Str.gt), LAMBDA m :
    With(IF m.at = 0 THEN 0 ELSE FindInLine(s, m.end, Str.span_close), LAMBDA c :
        IF c = 0 THEN <<>>
        ELSE <<SubSeq(s, m.at, c + Len(Str.span_close) - 1)>>
             \o UnprocessedSpans(s, c + Len(Str.span_close))))

\* re.search(r'<p.+?style="(.+?)".*?>', s): the group of the leftmost
\* match, or none.  "." matches no newline.
RECURSIVE CssSearch(_, _)
CssSearch(s, i) ==
    With(FindFrom(s, i, Str.p_open), LAMBDA p :
    With(IF p # 0 /\ p + 2 <= Len(s) /\ s[p + 2] # "\n"
         THEN FindInLine(s, p + 3, Str.style) ELSE 0, LAMBDA style :
    With(style + Len(Str.style), LAMBDA first :
    With(IF style # 0 /\ first <= Len(s) /\ s[first] # "\n"
         THEN FindInLine(s, first + 1, Str.quote) ELSE 0, LAMBDA quote :
    With(IF quote # 0 THEN FindInLine(s, quote + 1, Str.gt) ELSE 0, LAMBDA gt :
        IF p = 0 THEN [found |-> FALSE, group |-> <<>>]
        ELSE IF gt # 0 THEN [found |-> TRUE, group |-> SubSeq(s, first, quote - 1)]
        ELSE CssSearch(s, p + 1))))))

\* The loop that fills css_dict: lines 452-456.  The dictionary is the
\* sequence of its assignments; a declaration with no ':' has no
\* css_list[1], which raises IndexError.
RECURSIVE CssDict(_, _)
CssDict(css_strings, k) ==
    IF k > Len(css_strings) THEN [raised |-> "", items |-> <<>>]
    ELSE IF css_strings[k] = <<>> THEN CssDict(css_strings, k + 1)
    ELSE With(Split(css_strings[k], <<":">>), LAMBDA css_list :
             IF Len(css_list) < 2 THEN [raised |-> "IndexError", items |-> <<>>]
             ELSE With(CssDict(css_strings, k + 1), LAMBDA rest :
                      [raised |-> rest.raised,
                       items |-> <<[key |-> css_list[1], value |-> css_list[2]]>>
                                 \o rest.items]))

\* key in css_dict.keys()
HasKey(items, key) == \E k \in 1..Len(items) : items[k].key = key

\* css_dict[key]: the last assignment to the key.
Lookup(items, key) ==
    items[CHOOSE k \in 1..Len(items) :
            /\ items[k].key = key
            /\ \A j \in (k + 1)..Len(items) : items[j].key # key].value

\* s * n for a string s and a number (or bool) n.
Times(s, n) == IF n >= 1 THEN s ELSE <<>>

\* '%02d' % n
Pad2(n) == IF n < 10 THEN <<"0">> \o Decimal(n) ELSE Decimal(n)

\* The alignment the style attribute gives: lines 461-469.
CssPrefix(items) ==
    (IF HasKey(items, <<"t", "e", "x", "t", "-", "a", "l", "i", "g", "n">>)
     THEN With(Lookup(items, <<"t", "e", "x", "t", "-", "a", "l", "i", "g", "n">>),
               LAMBDA align :
                   IF align = <<"l", "e", "f", "t">> THEN <<"\\", "q", "l">>
                   ELSE IF align = <<"r", "i", "g", "h", "t">> THEN <<"\\", "q", "r">>
                   ELSE <<"\\", "q", "c">>)
     ELSE <<>>)
    \o (IF HasKey(items, <<"p", "a", "d", "d", "i", "n", "g", "-", "l", "e", "f", "t">>)
        THEN <<"\\", "l", "i">> \o Decimal(Padding) \o <<"\\", "r", "i">> \o Decimal(Padding)
        ELSE <<>>)

\* Lines 471-472.
FontPrefix(typeface, font_size, space_after) ==
    Times(<<"\\", "f">> \o Decimal(typeface), IF typeface # 0 THEN 1 ELSE 0)
    \o Times(<<"\\", "f", "s">> \o Decimal(font_size), IF font_size # 0 THEN 1 ELSE 0)
    \o Times(<<"\\", "s", "a">> \o Decimal(space_after), IF space_after # 0 THEN 1 ELSE 0)

\* Line 450.
DefaultPrefix(alignment, indent) ==
    <<"\\", "q">> \o <<alignment>> \o Times(<<"\\", "f", "i">> \o Decimal(Indent), indent)

\* What a call prints, one record a print().
Printed(text, data) == [text |-> text, data |-> data]

\* The paragraph prefix: lines 448-472, on the paragraph as fetched; arc and
\* chapter are arc_number and chapter_number of the enclosing get_chapter.
\* [raised, prefix, printed]
ParagraphPrefix(input_string, typeface, font_size, alignment, indent, space_after, arc, chapter) ==
    With(CssSearch(input_string, 1), LAMBDA css :
        IF ~css.found
        THEN [raised |-> "", printed |-> <<>>,
              prefix |-> line_prefix \o DefaultPrefix(alignment, indent)
                         \o FontPrefix(typeface, font_size, space_after)]
        ELSE With(CssDict(Split(css.group, <<";">>), 1), LAMBDA dict :
                 IF dict.raised # ""
                 THEN [raised |-> dict.raised, printed |-> <<>>, prefix |-> <<>>]
                 ELSE [raised |-> "",
                       printed |-> IF args.verbose \/ args.debug
                                   THEN <<Printed("DEBUG: %02d-%02d: css_dict = %s",
                                                  <<Pad2(arc), Pad2(chapter)>>),
                                          Printed("    %s", <<input_string>>)>>
                                   ELSE <<>>,
                       prefix |-> line_prefix \o CssPrefix(dict.items)
                                  \o FontPrefix(typeface, font_size, space_after)]))

\* The loop over the character references left in the paragraph: lines
\* 441-444.  'DEBUG: complete line:' % output_string has no conversion for
\* its argument, which raises TypeError.
UnprocessedCodes(output_string) ==
    With(FindAllFrom(output_string, 1, <<"&", "#">>, <<";">>), LAMBDA codes :
        IF codes = <<>> THEN [raised |-> "", printed |-> <<>>]
        ELSE IF args.verbose \/ args.debug
        THEN [raised |-> "TypeError",
              printed |-> <<Printed("ERROR: unprocessed character code encountered: %s",
                                    <<codes[1]>>)>>]
        ELSE [raised |-> "",
              printed |-> [k \in 1..Len(codes) |->
                              Printed("ERROR: unprocessed character code encountered: %s",
                                      <<codes[k]>>)]])

\* The paragraph after the special substitutions: lines 412-421.
Special(input_string) ==
    With(Replace(input_string, Str.newline, <<>>), LAMBDA output_string :
        ApplySpecial(output_string, 1, Len(special_substitutions)))

\* The paragraph body after the substitutions: lines 428-431.
Transcode(output_string) ==
    With(ApplySubstitutions(output_string, 1, Len(substitutions)), LAMBDA substituted :
        ApplyCharacters(substituted, 1, Len(character_substitutions)))

\* The report of a <span> no special substitution took: lines 423-426.
UnprocessedSpan(output_string) ==
    IF Contains(output_string, <<"<", "s", "p", "a", "n">>)
    THEN <<Printed("ERROR: unprocessed <span>: %s", UnprocessedSpans(output_string, 1))>>
         \o (IF args.verbose \/ args.debug
             THEN <<Printed("DEBUG: complete line: %s", <<output_string>>)>>
             ELSE <<>>)
    ELSE <<>>

\* Lines 433-474 on the transcoded paragraph, spans what lines 423-426
\* printed.
Finish(input_string, output_string, spans, typeface, font_size, alignment, indent, space_after, arc, chapter) ==
    IF LettersOnly(output_string) \in Boilerplate
    THEN [raised |-> "", value |-> <<>>, printed |-> spans]
    ELSE With(UnprocessedCodes(output_string), LAMBDA codes :
        IF codes.raised # ""
        THEN [raised |-> codes.raised, value |-> <<>>, printed |-> spans \o codes.printed]
        ELSE IF output_string = <<>>
        THEN [raised |-> "IndexError", value |-> <<>>, printed |-> spans \o codes.printed]
        ELSE With(ParagraphPrefix(input_string, typeface, font_size, alignment, indent,
                                  space_after, arc, chapter), LAMBDA prefix :
            IF prefix.raised # ""
            THEN [raised |-> prefix.raised, value |-> <<>>,
                  printed |-> spans \o codes.printed \o prefix.printed]
            ELSE [raised |-> "",
                  value |-> prefix.prefix
                            \o Times(Str.space, IF output_string[1] # "\\" THEN 1 ELSE 0)
                            \o output_string \o line_suffix,
                  printed |-> spans \o codes.printed \o prefix.printed]))

\* rich_textify: [raised, value, printed], value the string returned when
\* raised is ""; arc and chapter are arc_number and chapter_number of the
\* enclosing get_chapter.
rich_textify(input_string, typeface, font_size, alignment, indent, space_after, arc, chapter) ==
    With(Special(input_string), LAMBDA special :
    With(Transcode(special), LAMBDA output_string :
        Finish(input_string, output_string, UnprocessedSpan(special),
               typeface, font_size, alignment, indent, space_after, arc, chapter)))

\* The call of rich_textify in get_chapter: lines 559-570.
ConvertLine(paragraph, arc, chapter) ==
    IF arc \notin FormattedArcs
    THEN [raised |-> "KeyError", value |-> <<>>, printed |-> <<>>]
    ELSE With(IF HasFormatting(arc, chapter) THEN chapter_formatting
              ELSE default_formatting, LAMBDA f :
             rich_textify(paragraph, f.typeface, f.font_size, f.alignment, f.indent,
                          f.space_after, arc, chapter))

---------------------------------------------------------------------------
(* The paragraphs rich_textify is run on: etree.tostring of a <p> element. *)

\* Opening tags of the paragraph.
PTag ==
    [ plain |-> <<"<", "p", ">">>,
      right |-> <<"<", "p", " ", "s", "t", "y", "l", "e", "=", "\"", "t", "e", "x", "t", "-",
          "a", "l", "i", "g", "n", ":", "r", "i", "g", "h", "t", ";", "\"", ">">>,
      left |-> <<"<", "p", " ", "s", "t", "y", "l", "e", "=", "\"", "t", "e", "x", "t", "-",
          "a", "l", "i", "g", "n", ":", "l", "e", "f", "t", ";", "\"", ">">>,
      center |-> <<"<", "p", " ", "s", "t", "y", "l", "e", "=", "\"", "t", "e", "x", "t", "-",
          "a", "l", "i", "g", "n", ":", "c", "e", "n", "t", "e", "r", "\"", ">">>,
      padded |-> <<"<", "p", " ", "s", "t", "y", "l", "e", "=", "\"", "p", "a", "d", "d", "i",
          "n", "g", "-", "l", "e", "f", "t", ":", "3", "0", "p", "x", ";", "\"", ">">>,
      colour |-> <<"<", "p", " ", "s", "t", "y", "l", "e", "=", "\"", "c", "o", "l", "o", "r",
          ":", "r", "e", "d", ";", "\"", ">">>,
      nocolon |-> <<"<", "p", " ", "s", "t", "y", "l", "e", "=", "\"", "t", "e", "x", "t", "-",
          "a", "l", "i", "g", "n", ":", "r", "i", "g", "h", "t", ";", "b", "o", "l", "d", "\"",
          ">">>,
      close |-> <<"<", "/", "p", ">">> ]

PTags == {PTag.plain, PTag.right, PTag.left, PTag.center, PTag.padded, PTag.colour, PTag.nocolon}

\* Inline elements around the text of the paragraph.
Wrap ==
    [ none |-> [open |-> <<>>, close |-> <<>>],
      em |-> [open |-> <<"<", "e", "m", ">">>, close |-> <<"<", "/", "e", "m", ">">>],
      strong |-> [open |-> <<"<", "s", "t", "r", "o", "n", "g", ">">>, close |-> <<"<", "/",
          "s", "t", "r", "o", "n", "g", ">">>],
      a |-> [open |-> <<"<", "a", " ", "h", "r", "e", "f", "=", "\"", "u", "\"", ">">>,
          close |-> <<"<", "/", "a", ">">>],
      ul |-> [open |-> <<"<", "s", "p", "a", "n", " ", "s", "t", "y", "l", "e", "=", "\"", "t",
          "e", "x", "t", "-", "d", "e", "c", "o", "r", "a", "t", "i", "o", "n", ":", "u", "n",
          "d", "e", "r", "l", "i", "n", "e", ";", "\"", ">">>, close |-> <<"<", "/", "s", "p",
          "a", "n", ">">>],
      span |-> [open |-> <<"<", "s", "p", "a", "n", " ", "s", "t", "y", "l", "e", "=", "\"",
          "c", "o", "l", "o", "r", ":", "r", "e", "d", ";", "\"", ">">>, close |-> <<"<", "/",
          "s", "p", "a", "n", ">">>],
      del |-> [open |-> <<"<", "d", "e", "l", ">">>, close |-> <<"<", "/", "d", "e", "l", ">">>],
      br |-> [open |-> <<>>, close |-> <<"<", "b", "r", " ", "/", ">">>] ]

Wraps == {Wrap.none, Wrap.em, Wrap.strong, Wrap.a, Wrap.ul, Wrap.span, Wrap.del, Wrap.br}

\* Texts of the paragraph.
Core ==
    [ empty |-> <<>>,
      text |-> <<"H", "i">>,
      next |-> <<"N", "e", "x", "t", " ", "C", "h", "a", "p", "t", "e", "r">>,
      last |-> <<"L", "a", "s", "t", " ", "C", "h", "a", "p", "t", "e", "r">>,
      both |-> <<"L", "a", "s", "t", " ", "C", "h", "a", "p", "t", "e", "r", " ", "N", "e", "x",
          "t", " ", "C", "h", "a", "p", "t", "e", "r">>,
      mapped |-> <<"I", "t", "&", "#", "8", "2", "1", "7", ";", "s">>,
      unmapped |-> <<"&", "#", "9", "9", "9", "9", ";">>,
      escape |-> <<"&", "#", "8", "2", "2", "0", ";", "H", "i">>,
      newline |-> <<"a", "\n", "b">> ]

Cores == {Core.empty, Core.text, Core.next, Core.last, Core.both, Core.mapped, Core.unmapped, Core.escape, Core.newline}

Paragraph(tag, wrap, core) == tag \o wrap.open \o core \o wrap.close \o PTag.close

\* Every tag around two bodies, and every body in two tags.
Paragraphs ==
    {Paragraph(tag, wrap, Core.text) : tag \in PTags, wrap \in {Wrap.none, Wrap.ul}}
    \cup {Paragraph(tag, wrap, core) : tag \in {PTag.plain, PTag.right}, wrap \in Wraps, core \in Cores}

\* The chapters rich_textify is run for: one with an entry in
\* RTF.per_chapter_formatting and one with none.
ConvertedChapters == {<<1, 1>>, <<19, 9>>}

\* get_chapter is at "for raw_line in chapter_lines" with one paragraph.
InitConvert ==
    /\ pc = "convert"
    /\ \E verbose \in BOOLEAN, debug \in BOOLEAN :
         args = [NoArgs EXCEPT !.verbose = verbose, !.debug = debug]
    /\ \E chapter \in ConvertedChapters :
         /\ arc_number = chapter[1]
         /\ chapter_number = chapter[2]
    /\ line \in Paragraphs
    /\ rich_line = NoLine
    /\ toc = "full"
    /\ n_headings = 0
    /\ n_links = 0
    /\ heading_prefix = <<>>
    /\ heading = <<>>
    /\ link = NoLink
    /\ index = <<>>
    /\ previous_arc_number = NoArc
    /\ error = ""
    /\ MainIdle

\* One pass of "for raw_line in chapter_lines": lines 558-570.
Convert ==
    /\ pc = "convert"
    /\ rich_line' = ConvertLine(line, arc_number, chapter_number)
    /\ error' = rich_line'.raised
    /\ pc' = IF rich_line'.raised # "" THEN "raised" ELSE "converted"
    /\ UNCHANGED <<main_vars, args, line, index_vars>>

NextConvert == Convert

SpecConvert == InitConvert /\ [][NextConvert]_vars

---------------------------------------------------------------------------
(* get_chapter: lines 346-589.  A file is the sequence of the strings      *)
(* written to it; a written string is a block: the name of its constant    *)
(* control words, and the text formatted into them.                        *)

\* str.upper() of one character.
UpperChar(c) ==
    CASE c = "a" -> "A" [] c = "b" -> "B" [] c = "c" -> "C" [] c = "d" -> "D" [] c = "e" -> "E" [] c = "f" -> "F"
      [] c = "g" -> "G" [] c = "h" -> "H" [] c = "i" -> "I" [] c = "j" -> "J" [] c = "k" -> "K" [] c = "l" -> "L"
      [] c = "m" -> "M" [] c = "n" -> "N" [] c = "o" -> "O" [] c = "p" -> "P" [] c = "q" -> "Q" [] c = "r" -> "R"
      [] c = "s" -> "S" [] c = "t" -> "T" [] c = "u" -> "U" [] c = "v" -> "V" [] c = "w" -> "W" [] c = "x" -> "X"
      [] c = "y" -> "Y" [] c = "z" -> "Z"
      [] OTHER -> c

\* s.upper()
Upper(s) == [k \in 1..Len(s) |-> UpperChar(s[k])]

\* re.split(r'\(|;|:|\)', s)
RECURSIVE SplitTitle(_)
SplitTitle(s) ==
    With(Least({j \in 1..Len(s) : s[j] \in {"(", ";", ":", ")"}}), LAMBDA at :
        IF at = 0 THEN <<s>>
        ELSE With(SubSeq(s, at + 1, Len(s)), LAMBDA rest :
                 <<SubSeq(s, 1, at - 1)>> \o SplitTitle(rest)))

\* [part.strip() for part in re.split(...) if part != '']: line 503.
NonEmpty(part) == part # <<>>

TitleParts(chapter_title) ==
    With(SelectSeq(SplitTitle(chapter_title), NonEmpty), LAMBDA parts :
        [k \in 1..Len(parts) |-> Strip(parts[k])])

Block(name, text) == [block |-> name, text |-> text]

\* The name of the chapter's file: lines 481 and 488-491.  raised is
\* "IndexError" when the title of a joined arc has no ':' to split on.
ChapterPath(join, arc, chapter, chapter_title, arc_title) ==
    IF ~join
    THEN [raised |-> "",
          path |-> Pad2(arc) \o <<"-">> \o Pad2(chapter) \o Str.space \o chapter_title \o <<".", "r", "t", "f">>]
    ELSE IF arc_title = <<>>
    THEN [raised |-> "IndexError", path |-> <<>>]
    ELSE IF arc_title[1] # "E"
    THEN With(Split(arc_title, <<":">>), LAMBDA split :
             IF Len(split) < 2
             THEN [raised |-> "IndexError", path |-> <<>>]
             ELSE [raised |-> "",
                   path |-> <<"A", "r", "c", " ">> \o Pad2(arc) \o <<" ", "-", " ">>
                            \o Strip(split[2]) \o <<".", "r", "t", "f">>])
    ELSE [raised |-> "", path |-> Replace(arc_title, <<":", " ">>, <<" ", "-", " ">>) \o <<".", "r", "t", "f">>]

\* The file after open(chapter_path, mode), remove_file before it for the
\* first chapter of a joined arc: lines 482 and 492-494.
Opened(fs, path, join, position) ==
    IF ~join \/ position = 1 \/ path \notin DOMAIN fs THEN <<>> ELSE fs[path]

\* generate_file_header and generate_cover_page: lines 483-500.  The cover
\* title is re.sub(r'(\(.*?\))', r'', arc_title.upper()).
FrontMatter(join, arc_title, position) ==
    (IF ~join \/ position = 1 THEN <<Block("file_header", <<>>)>> ELSE <<>>)
    \o (IF position = 1
        THEN <<Block("cover_page",
                     With(Upper(arc_title), LAMBDA upper :
                         Sub(upper, <<Lit(<<"(">>)>>, <<")">>, <<>>, FALSE, <<>>)))>>
        ELSE <<>>)

\* The right header of a chapter: lines 511-527.
RightHeader(parts) ==
    IF Len(parts) = 1 THEN Upper(<<"C", "h", "a", "p", "t", "e", "r", " ">> \o parts[1])
    ELSE IF Len(parts) = 2 THEN Upper(parts[1] \o <<" ", "(">> \o parts[2] \o <<")">>)
    ELSE Upper(parts[1] \o <<" ", "(">> \o Replace(parts[2], <<"D", "o", "n", "a", "t", "i", "o", "n", " ">>, <<>>) \o <<";", " ">>
               \o parts[3] \o <<")">>)

\* The headers and footers of a chapter's section: lines 506-529.  With no
\* title part only the left header is written before chapter_title_parts[0]
\* raises.
Headers(arc_title, parts) ==
    <<Block("headerl", Upper(arc_title))>>
    \o (IF parts # <<>>
        THEN << Block("headerr", RightHeader(parts)), Block("headerf", <<>>),
                Block("footerl", <<>>), Block("footerr", <<>>), Block("footerf", <<>>) >>
        ELSE <<>>)

\* The section break and the chapter heading: lines 532-554.
ChapterHeading(parts) ==
    <<Block("sect", <<>>), Block("page", <<>>), Block("title", parts[1])>>
    \o (IF Len(parts) = 1 THEN <<>>
        ELSE IF Len(parts) = 2 THEN <<Block("subtitle", parts[2])>>
        ELSE <<Block("subtitle", parts[2] \o <<";", " ">> \o parts[3])>>)

\* "for raw_line in chapter_lines" from paragraph k on: lines 557-571.
\* cf is [raised, written, printed]; a paragraph that raises ends the loop.
RECURSIVE Body(_, _, _, _, _)
Body(cf, chapter_lines, k, arc, chapter) ==
    IF k > Len(chapter_lines) THEN cf
    ELSE With(Strip(chapter_lines[k]), LAMBDA raw_line :
         With(ConvertLine(raw_line, arc, chapter), LAMBDA converted :
         With([raised |-> converted.raised,
               written |-> IF converted.raised # "" \/ converted.value = <<>>
                           THEN cf.written
                           ELSE Append(cf.written, Block("line", converted.value)),
               printed |-> cf.printed \o converted.printed], LAMBDA next :
             IF next.raised # "" THEN next
             ELSE Body(next, chapter_lines, k + 1, arc, chapter))))

\* The end of the chapter without the end-of-arc marker.
EndOfFileUnmarked(join, arc, position) ==
    IF ~join THEN <<Block("end_of_file", <<>>)>> ELSE <<>>

\* The end of the chapter: lines 573-587.
EndOfFile(join, arc, position) ==
    IF ~join THEN <<Block("end_of_file", <<>>)>>
    ELSE IF position = 2
    THEN << Block("header", <<>>), Block("footer", <<>>), Block("sect", <<>>),
            Block("page", <<>>),
            Block("end_of_arc",
                  IF arc # SentinelArc THEN <<"A", "R", "C", " ">> \o Decimal(arc) ELSE <<"W", "O", "R", "M">>) >>
    ELSE <<>>

\* What get_page and open do for one chapter: the page comes or urlopen
\* raises, the file opens or open raises.
Fetched(chapter_lines) == [raised |-> "", chapter_lines |-> chapter_lines]
FetchFails == [raised |-> "URLError", chapter_lines |-> <<>>]

\* get_chapter: [raised, files, printed], files the working directory it
\* leaves, also when it raises.
get_chapter(fs, page, opens, join, chapter, chapter_title, arc, arc_title, position) ==
    IF page.raised # "" THEN [raised |-> page.raised, files |-> fs, printed |-> <<>>]
    ELSE With(ChapterPath(join, arc, chapter, chapter_title, arc_title), LAMBDA named :
    IF named.raised # "" THEN [raised |-> named.raised, files |-> fs, printed |-> <<>>]
    ELSE With(IF join /\ position = 1
              THEN [f \in DOMAIN fs \ {named.path} |-> fs[f]]
              ELSE fs, LAMBDA removed :
    IF ~opens THEN [raised |-> "OSError", files |-> removed, printed |-> <<>>]
    ELSE With(TitleParts(chapter_title), LAMBDA parts :
         With(Opened(fs, named.path, join, position)
              \o FrontMatter(join, arc_title, position)
              \o Headers(arc_title, parts), LAMBDA front :
    IF parts = <<>>
    THEN [raised |-> "IndexError", files |-> (named.path :> front) @@ removed,
          printed |-> <<>>]
    ELSE With([raised |-> "", written |-> front \o ChapterHeading(parts),
               printed |-> <<>>], LAMBDA cf :
         With(Body(cf, page.chapter_lines, 1, arc, chapter), LAMBDA body :
             [raised |-> body.raised,
              files |-> (named.path :>
                            IF body.raised # "" THEN body.written
                            ELSE body.written \o EndOfFile(join, arc, position))
                        @@ removed,
              printed |-> body.printed]))))))

---------------------------------------------------------------------------
(* main: lines 592-661, from the return of get_index on. *)

\* sorted(S) for a set of numbers.
RECURSIVE Sorted(_)
Sorted(S) ==
    IF S = {} THEN <<>>
    ELSE LET least == CHOOSE x \in S : \A y \in S : x <= y
         IN  <<least>> \o Sorted(S \ {least})

\* The arc titles of the contents page main is run on: the first arc, and
\* the titles the second arc may have.
ArcTitle ==
    [ first |-> <<"A", "r", "c", " ", "1", ":", " ", "G", " ", "(", "a", ")">>,
      second |-> <<"A", "r", "c", " ", "2", ":", " ", "I">>,
      epilogue |-> <<"E", ":", " ", "T">>,
      bare |-> <<"A", "r", "c", " ", "2">> ]

SecondTitles == {ArcTitle.second, ArcTitle.epilogue, ArcTitle.bare}

\* The link text of chapter k of arc a on that page: a number alone, a
\* number with a credit, with an interlude and a name, and, for the first
\* chapter of arc 2, a number with a colon before the parenthesis.
ChapterLink(a, k) ==
    [text |-> Decimal(a) \o Str.dot \o Decimal(k)
              \o (IF a = 2 /\ k = 1 THEN <<":", " ", "(", "B", ")">>
                  ELSE IF k = 2 THEN <<" ", "(", "D", "o", "n", "a", "t", "i", "o", "n", " ", "x", ")">>
                  ELSE IF k = 3 THEN <<" ", "(", "I", "n", "t", "e", "r", "l", "u", "d", "e", " ", "2", ";", " ", "B", ")">>
                  ELSE <<>>),
     href |-> Url.abs]

\* The links of that page: MaxChapters chapters of arc 1, one fewer of arc 2.
PageLinks ==
    [k \in 1..MaxChapters |-> ChapterLink(1, k)]
    \o [k \in 1..(MaxChapters - 1) |-> ChapterLink(2, k)]

\* get_index on a page of headings and links: lines 284-343.
RECURSIVE HeadingPass(_, _, _)
HeadingPass(gi, headings, k) ==
    IF k > Len(headings) THEN gi
    ELSE HeadingPass(HeadingBody(gi, headings[k]), headings, k + 1)

RECURSIVE LinkPass(_, _, _, _)
LinkPass(gi, links, k, faithful) ==
    IF k > Len(links) \/ gi.error # "" THEN gi
    ELSE LinkPass(LinkBody(gi, links[k].text, links[k].href, faithful), links, k + 1,
                  faithful)

get_index(headings, links, faithful) ==
    LinkPass(HeadingPass(GIStart, headings, 1), links, 1, faithful)

\* The -a and -c options main is run with: None, or the numbers given.
ArcOptions ==
    {None, Some({}), Some({1}), Some({2}), Some({1, 2}), Some({1, 3}), Some({3})}

ChapterOptions ==
    {None, Some({1}), Some({MaxChapters}), Some({1, 2, 3}), Some({2, MaxChapters + 1}),
     Some({MaxChapters + 1})}

\* The -d option main is run with: line 599 reads it only when neither -a
\* nor -c is given.
DownloadOptions(arc, chapter) ==
    IF arc = None /\ chapter = None THEN BOOLEAN ELSE {FALSE}

\* The paragraphs of a chapter page: one kept and one dropped; one with a
\* character reference the table does not hold.
Pages ==
    { <<Paragraph(PTag.plain, Wrap.none, Core.text) \o Str.newline, Paragraph(PTag.right, Wrap.a, Core.next)>>,
      <<Paragraph(PTag.plain, Wrap.em, Core.unmapped)>> }

\* get_index has returned index to main.
InitMain ==
    /\ pc = "main"
    /\ \E arc \in ArcOptions, chapter \in ChapterOptions :
       \E download \in DownloadOptions(arc, chapter), join \in BOOLEAN, verbose \in BOOLEAN :
         args = [NoArgs EXCEPT !.arc = arc, !.chapter = chapter, !.download = download,
                               !.join = join, !.verbose = verbose]
    /\ \E title \in SecondTitles :
         index = get_index(<<ArcTitle.first, title>>, PageLinks, FALSE).index
    /\ toc = "synthetic"
    /\ n_headings = 2
    /\ n_links = Len(PageLinks)
    /\ arc_number = 0
    /\ chapter_number = 0
    /\ heading_prefix = <<>>
    /\ heading = <<>>
    /\ link = NoLink
    /\ previous_arc_number = NoArc
    /\ line = <<>>
    /\ rich_line = NoLine
    /\ error = ""
    /\ MainIdle

\* The lines of the table of contents: lines 601-610.
ContentsOfArc(arc) ==
    <<Printed("%d. %s", <<arc>>)>>
    \o [k \in 1..Len(Sorted(DOMAIN index[arc].chapters)) |->
          Printed("    %d. %s ... %s", <<arc, Sorted(DOMAIN index[arc].chapters)[k]>>)]

RECURSIVE Contents(_, _)
Contents(arcs, k) ==
    IF k > Len(arcs) THEN <<>> ELSE ContentsOfArc(arcs[k]) \o Contents(arcs, k + 1)

\* No option asks for a download: main prints the table of contents.
ListContents ==
    /\ pc = "main"
    /\ ~args.download /\ args.arc = None /\ args.chapter = None
    /\ output' = <<Printed("Downloading \"Table of Contents\"...", <<>>),
                   Printed("TABLE OF CONTENTS:", <<>>)>>
                 \o Contents(Sorted(DOMAIN index), 1)
    /\ pc' = "done"
    /\ UNCHANGED <<args, error, line, rich_line, index_vars, selected_arcs,
                   selected_chapters, chapter_position, n_arcs, n_chapters, files, calls>>

\* What a selection keeps of the numbers asked for, and what it reports:
\* lines 615-623 and 627-633.
Selection(asked, all, what, none) ==
    [selected |-> IF asked = None THEN Sorted(all) ELSE Sorted(asked[1] \cap all),
     printed |->
         IF asked = None THEN <<>>
         ELSE (IF asked[1] \ all # {}
               THEN <<Printed("ERROR: selected " \o what
                                  \o " %s do not exist; automatically deselected",
                              Sorted(asked[1] \ all))>>
               ELSE <<>>)
              \o (IF asked[1] \cap all = {}
                  THEN <<Printed("ERROR: no valid " \o what \o " selected; " \o none, <<>>)>>
                  ELSE <<>>)]

\* The arcs main goes through: lines 611-623.
SelectArcs ==
    /\ pc = "main"
    /\ ~(~args.download /\ args.arc = None /\ args.chapter = None)
    /\ LET chosen == Selection(args.arc, DOMAIN index, "arcs", "automatically exiting")
       IN  /\ selected_arcs' = chosen.selected
           /\ output' = <<Printed("Downloading \"Table of Contents\"...", <<>>),
                          Printed("Downloading chapter(s)...", <<>>)>>
                        \o chosen.printed
           /\ pc' = IF chosen.selected = <<>> THEN "done" ELSE "arcs"
    /\ UNCHANGED <<args, error, line, rich_line, index_vars, selected_chapters,
                   chapter_position, n_arcs, n_chapters, files, calls>>

\* The chapter selection applied to every arc.
SelectChaptersOfEveryArc(arc, arcs) ==
    Selection(args.chapter, DOMAIN index[arc].chapters, "chapters",
              "automatically skipping arc")

\* The chapters main goes through in an arc: lines 626-635.
SelectChapters(arc, arcs) ==
    IF args.chapter # None /\ (Len(arcs) = 1 \/ arc = arcs[1])
    THEN Selection(args.chapter, DOMAIN index[arc].chapters, "chapters",
                   "automatically skipping arc")
    ELSE Selection(None, DOMAIN index[arc].chapters, "chapters",
                   "automatically skipping arc")

\* One pass of "for arc_number in selected_arcs" up to its chapter loop.
NextArc ==
    /\ pc = "arcs"
    /\ n_arcs < Len(selected_arcs)
    /\ n_arcs' = n_arcs + 1
    /\ arc_number' = selected_arcs[n_arcs + 1]
    /\ LET chosen == SelectChapters(selected_arcs[n_arcs + 1], selected_arcs)
       IN  /\ selected_chapters' = chosen.selected
           /\ output' = output \o chosen.printed
    /\ n_chapters' = 0
    /\ pc' = "chapters"
    /\ UNCHANGED <<args, error, line, rich_line, toc, n_headings, n_links, heading_prefix,
                   heading, link, index, chapter_number, previous_arc_number, selected_arcs,
                   chapter_position, files, calls>>

\* chapter_position: lines 646-651.
ChapterPosition(chapter, chapters) ==
    IF chapter = chapters[1] THEN 1
    ELSE IF chapter = chapters[Len(chapters)] THEN 2
    ELSE 0

\* One pass of "for chapter_number in selected_chapters": lines 637-659.
Chapter ==
    /\ pc = "chapters"
    /\ n_chapters < Len(selected_chapters)
    /\ n_chapters' = n_chapters + 1
    /\ \E page \in {FetchFails} \cup {Fetched(chapter_lines) : chapter_lines \in Pages} :
       \E opens \in BOOLEAN :
         LET chapter == selected_chapters[n_chapters + 1]
             entry == index[arc_number].chapters[chapter]
             position == ChapterPosition(chapter, selected_chapters)
         IN  \E got \in {get_chapter(files, page, opens, args.join, chapter, entry.chapter,
                                     arc_number, index[arc_number].arc, position)} :
             /\ chapter_number' = chapter
             /\ chapter_position' = position
             /\ files' = got.files
             /\ calls' = Append(calls, [arc |-> arc_number, chapter |-> chapter,
                                        position |-> position, raised |-> got.raised])
             /\ output' = output \o <<Printed("%02d-%02d. %s <%s>", <<arc_number, chapter>>)>>
                          \o got.printed
             /\ error' = got.raised
             /\ pc' = IF got.raised # "" THEN "raised" ELSE "chapters"
    /\ UNCHANGED <<args, line, rich_line, toc, n_headings, n_links, arc_number,
                   heading_prefix, heading, link, index, previous_arc_number, selected_arcs,
                   selected_chapters, n_arcs>>

\* selected_chapters is exhausted.
ArcDone ==
    /\ pc = "chapters"
    /\ n_chapters = Len(selected_chapters)
    /\ pc' = "arcs"
    /\ UNCHANGED <<args, error, line, rich_line, index_vars, main_vars>>

\* selected_arcs is exhausted: "return".
Return ==
    /\ pc = "arcs"
    /\ n_arcs = Len(selected_arcs)
    /\ pc' = "done"
    /\ UNCHANGED <<args, error, line, rich_line, index_vars, main_vars>>

NextMain == ListContents \/ SelectArcs \/ NextArc \/ Chapter \/ ArcDone \/ Return

SpecMain == InitMain /\ [][NextMain]_vars

---------------------------------------------------------------------------
(* Claims about get_index, checked under SpecIndex. *)

\* The chapter numbers of arc a.
ChapterNumbers(a) == DOMAIN index[a].chapters

\* get_index has returned the Index.
Indexed == pc = "indexed"

StoresSentinelLink ==
    /\ pc = "links"
    /\ pc' = "links"
    /\ arc_number' = SentinelArc
    /\ previous_arc_number' = SentinelArc
    /\ previous_arc_number # SentinelArc \/ chapter_number' # chapter_number

\* The chapter number the counter gives a sentinel-arc link when nothing is
\* inserted: lines 314-318 alone.
UninsertedNumber == CountChapter([GI EXCEPT !.arc_number = SentinelArc]).chapter_number

\* A step of the link pass that inserted the missing chapter.
Inserts == StoresSentinelLink /\ UninsertedNumber = 2

\* The sentinel arc holds chapters.
HasSentinelChapters ==
    SentinelArc \in DOMAIN index /\ ChapterNumbers(SentinelArc) # {}

\* Chapter 2 of the sentinel arc is the chapter added by hand.
InjectedAtTwo ==
    /\ 2 \in ChapterNumbers(SentinelArc)
    /\ index[SentinelArc].chapters[2] = [chapter |-> Str.E_2, url |-> Url.teneral_e_2]

\* C2 as claimed: every returned Index whose sentinel arc holds chapters has
\* 'E.2' at chapter 2 of it, and every sentinel-arc link is stored at the
\* number it gets without the insertion.
C2_Original ==
    /\ [](Indexed /\ HasSentinelChapters => InjectedAtTwo)
    /\ [][StoresSentinelLink => chapter_number' = UninsertedNumber]_vars

\* C2 amended: when the counter of the sentinel arc reaches 2, 'E.2' is at
\* chapter 2 from then on and no entry stored before is changed, but the link
\* that reached 2 is stored at 3, one above the number it gets without the
\* insertion; a sentinel-arc link that does not reach 2 is stored at the
\* number it gets without the insertion.  An arc 31 with one chapter holds
\* no 'E.2'.
C2_InsertionShiftsLink ==
    /\ [](HasSentinelChapters /\ ChapterNumbers(SentinelArc) # {1} => InjectedAtTwo)
    /\ [][Inserts =>
            /\ chapter_number' = 3
            /\ chapter_number' = UninsertedNumber + 1
            /\ InjectedAtTwo'
            /\ \A a \in DOMAIN index : \A c \in ChapterNumbers(a) :
                   (a = SentinelArc /\ c = 3) \/ index'[a].chapters[c] = index[a].chapters[c]]_vars
    /\ [][StoresSentinelLink /\ ~Inserts => chapter_number' = UninsertedNumber]_vars

\* C2 witness: the sentinel arc holds the first link at 1, 'E.2' at 2 and the
\* link that caused the insertion at 3.
C2_Witness ==
    /\ Indexed
    /\ HasSentinelChapters
    /\ ChapterNumbers(SentinelArc) = 1..3
    /\ InjectedAtTwo
    /\ index[SentinelArc].chapters[1].chapter = LinkText.E_1
    /\ index[SentinelArc].chapters[3].chapter = LinkText.E_3

\* A step of the heading pass: one heading has been read.
ReadsHeading == pc = "headings" /\ n_headings' = n_headings + 1

\* The text of the heading the step read, as the pass sees it.
HeadingRead == Strip(heading')

StartsWithDigit(text) == text # <<>> /\ text[1] \in Digits

NonDigit(text) == text # <<>> /\ text[1] \notin Digits

\* The step created exactly one ArcEntry, with the next number and the title,
\* and changed no other.
CreatesArc(title) ==
    /\ arc_number' = arc_number + 1
    /\ DOMAIN index' = DOMAIN index \cup {arc_number + 1}
    /\ arc_number + 1 \notin DOMAIN index
    /\ index'[arc_number + 1] = [arc |-> title, chapters |-> <<>>]
    /\ \A a \in DOMAIN index : index'[a] = index[a]

CreatesNoArc == arc_number' = arc_number /\ index' = index

\* The arc counter is the number of ArcEntries, which are numbered 1..count.
CountsArcs == arc_number = Cardinality(DOMAIN index) /\ DOMAIN index = 1..arc_number

\* The heading pass is running or has just ended.
InHeadingPass == pc = "headings" \/ (pc = "links" /\ n_links = 0)

\* C11 as claimed: every one-character heading read with no prefix pending
\* becomes the pending prefix.
C11_Original ==
    [][ReadsHeading /\ Len(HeadingRead) = 1 /\ heading_prefix = <<>> =>
           CreatesNoArc /\ heading_prefix' = HeadingRead]_vars

\* C11 amended: in the heading pass, a non-digit heading read while a
\* one-character prefix is pending creates exactly one arc titled prefix+text,
\* numbered next, and clears the prefix; a one-character non-digit heading
\* read with no prefix pending creates no arc and becomes the pending prefix;
\* a heading that starts with a digit, one-character or longer, creates no
\* arc and leaves the prefix as it is; the arc counter is the number of
\* ArcEntries, numbered 1..count in the order of their headings.
C11_HeadingPass ==
    /\ [][ReadsHeading /\ NonDigit(HeadingRead) /\ heading_prefix # <<>> =>
             /\ Len(heading_prefix) = 1
             /\ CreatesArc(heading_prefix \o HeadingRead)
             /\ heading_prefix' = <<>>]_vars
    /\ [][ReadsHeading /\ NonDigit(HeadingRead) /\ Len(HeadingRead) = 1
             /\ heading_prefix = <<>> =>
             CreatesNoArc /\ heading_prefix' = HeadingRead]_vars
    /\ [][ReadsHeading /\ StartsWithDigit(HeadingRead) =>
             CreatesNoArc /\ heading_prefix' = heading_prefix]_vars
    /\ [][ReadsHeading => CreatesNoArc \/ \E title \in {index'[arc_number'].arc} :
                                             CreatesArc(title)]_vars
    /\ [](InHeadingPass => CountsArcs)

\* C11 witness: of three headings the first created no arc, the second, one
\* character, was kept as the prefix, and the third made arc 1 with it.
C11_Witness ==
    /\ pc = "links"
    /\ toc = "synthetic"
    /\ n_headings = 3
    /\ heading = HeadingText.plain
    /\ heading_prefix = <<>>
    /\ arc_number = 1
    /\ DOMAIN index = {1}
    /\ index[1].arc = HeadingText.single \o HeadingText.plain

\* A step of the link pass: one link has been read.
ReadsLink == pc = "links" /\ n_links' = n_links + 1

\* The text of the link the step read, as the pass sees it.
LinkRead == Strip(link'.text)

\* The link is a chapter link: its text starts with a digit or 'E'.
IsChapterLink(text) == text # <<>> /\ text[1] \in Digits \cup {"E"}

\* The step stored the link as a ChapterEntry of an arc that has a title, the
\* sentinel arc for an 'E' link.
StoresLink ==
    /\ pc' = "links"
    /\ arc_number' \in DOMAIN index'
    /\ index'[arc_number'].arc # <<>>
    /\ chapter_number' \in DOMAIN index'[arc_number'].chapters
    /\ index'[arc_number'].chapters[chapter_number'].chapter
           = ChapterTitle(LinkRead, args.faithful)
    /\ LinkRead[1] = "E" => arc_number' = SentinelArc

\* C15: get_index never raises, and every link whose text starts with a digit
\* or 'E' is stored as a ChapterEntry under its arc number, which has an
\* ArcEntry title, whatever arcs the heading pass created.
C15_IndexComplete ==
    /\ [](pc # "raised")
    /\ [][ReadsLink /\ IsChapterLink(LinkRead) => StoresLink]_vars

---------------------------------------------------------------------------
(* Claims about rich_textify, checked under SpecConvert. *)

\* rich_textify has returned or raised for the paragraph in line.
Called == pc \in {"converted", "raised"}

\* rich_textify returned the empty string.
Suppressed == pc = "converted" /\ rich_line.value = <<>>

\* rich_textify returned a formatted paragraph.
Formatted == pc = "converted" /\ rich_line.value # <<>>

StartsWith(s, p) == MatchAt(s, 1, p)

\* The paragraph's own opening tag: up to the first '>'.
OwnTag(paragraph) == SubSeq(paragraph, 1, FindFrom(paragraph, 1, Str.gt))

\* The text of a paragraph: what is outside its tags.
TextContent(paragraph) == Sub(paragraph, <<Lit(<<"<">>)>>, Str.gt, <<>>, FALSE, <<>>)

\* Some tag of the paragraph starts with one of the names.
HasTag(paragraph, names) ==
    \E i \in 1..Len(paragraph) : \E n \in names :
        MatchAt(paragraph, i, <<"<">> \o n) \/ MatchAt(paragraph, i, <<"<", "/">> \o n)

\* Every tag of the paragraph starts with one of the names.
OnlyTags(paragraph, names) ==
    \A i \in 1..Len(paragraph) :
        paragraph[i] = "<" =>
            \E n \in names :
                MatchAt(paragraph, i, <<"<">> \o n) \/ MatchAt(paragraph, i, <<"<", "/">> \o n)

\* The prefix control block the FormattingOverride of a chapter gives.
OverridePrefix ==
    line_prefix \o <<"\\", "q", "l", "\\", "f", "3", "\\", "f", "s", "2", "8", "\\", "s", "a", "3", "6", "0">>

\* C4: with a FormattingOverride for the chapter, every formatted paragraph
\* starts with the override's control block, whatever its style attribute.
C4_OverrideAlone ==
    Formatted /\ HasFormatting(arc_number, chapter_number) =>
        /\ StartsWith(rich_line.value, OverridePrefix)
        /\ rich_line.value[Len(OverridePrefix) + 1] \in {" ", "\\"}

\* The character references the substitutions leave in the paragraph.
UnmappedReferences == FindAllFrom(Transcode(Special(line)), 1, <<"&", "#">>, <<";">>)

\* C6: a paragraph with a character reference the table does not hold is
\* returned formatted with the reference in it, and the reference is
\* reported, under every setting of verbose and debug.
C6_UnmappedNeverFatal ==
    Called /\ UnmappedReferences # <<>> =>
        /\ Formatted
        /\ \A k \in 1..Len(UnmappedReferences) :
               /\ Contains(rich_line.value, <<"&", "#">> \o UnmappedReferences[k] \o <<";">>)
               /\ \E n \in 1..Len(rich_line.printed) :
                      rich_line.printed[n] =
                          Printed("ERROR: unprocessed character code encountered: %s",
                                  <<UnmappedReferences[k]>>)

\* The navigation texts: "nextchapter", "lastchapter" and the two in a row.
NavSingles == {<<"n", "e", "x", "t", "c", "h", "a", "p", "t", "e", "r">>, <<"l", "a", "s", "t", "c", "h", "a", "p", "t", "e", "r">>}
NavPairs == {<<"l", "a", "s", "t", "c", "h", "a", "p", "t", "e", "r", "n", "e", "x", "t", "c", "h", "a", "p", "t", "e", "r">>, <<"n", "e", "x", "t", "c", "h", "a", "p", "t", "e", "r", "l", "a", "s", "t", "c", "h", "a", "p", "t", "e", "r">>}

IsNavigation(paragraph) ==
    LettersOnly(TextContent(paragraph)) \in NavSingles \cup NavPairs

\* C8 as claimed: a paragraph whose text is a navigation text yields the
\* empty string whatever emphasis, bold, link and line-break tags wrap it.
C8_Original ==
    /\ Called
    /\ IsNavigation(line)
    /\ OnlyTags(line, {<<"p">>, <<"a">>, <<"e", "m">>, <<"s", "t", "r", "o", "n", "g">>, <<"b", "r">>})
    => Suppressed

\* The paragraph holds one line break, and no letter of its text after it.
EndsWithBreak(paragraph) ==
    LET at == FindFrom(paragraph, 1, <<"<", "b", "r">>)
    IN  /\ at # 0
        /\ FindFrom(paragraph, at + 1, <<"<", "b", "r">>) = 0
        /\ LettersOnly(TextContent(SubSeq(paragraph, at, Len(paragraph)))) = <<>>

\* C8 amended: a navigation text with no character reference in it yields the
\* empty string when only paragraph and link tags wrap it, and when it is two
\* navigation texts in a row closed by one line break; with an emphasis or
\* bold tag, or with a line break after one navigation text, the paragraph
\* is not dropped (the letters of \i, \b and \line count).
C8_BoilerplateAfterSubstitution ==
    Called /\ IsNavigation(line) /\ ~Contains(line, <<"&">>) =>
        /\ OnlyTags(line, {<<"p">>, <<"a">>}) => Suppressed
        /\ (/\ OnlyTags(line, {<<"p">>, <<"a">>, <<"b", "r">>})
            /\ EndsWithBreak(line)
            /\ LettersOnly(TextContent(line)) \in NavPairs) => Suppressed
        /\ (/\ OnlyTags(line, {<<"p">>, <<"a">>, <<"e", "m">>, <<"s", "t", "r", "o", "n", "g">>, <<"b", "r">>})
            /\ HasTag(line, {<<"e", "m">>, <<"s", "t", "r", "o", "n", "g">>})) => ~Suppressed
        /\ (/\ OnlyTags(line, {<<"p">>, <<"a">>, <<"b", "r">>})
            /\ HasTag(line, {<<"b", "r">>})
            /\ LettersOnly(TextContent(line)) \in NavSingles) => ~Suppressed

\* C8 witness: "Next Chapter" in a link has been dropped.
C8_Witness ==
    /\ Suppressed
    /\ line = Paragraph(PTag.right, Wrap.a, Core.next)

\* The declarations of the style attribute re.search finds.
Declarations(paragraph) ==
    LET css == CssSearch(paragraph, 1)
    IN  IF css.found THEN Split(css.group, <<";">>) ELSE <<>>

WellFormed(css_string) == css_string = <<>> \/ Contains(css_string, <<":">>)

HasMalformedDeclaration(paragraph) ==
    \E k \in 1..Len(Declarations(paragraph)) : ~WellFormed(Declarations(paragraph)[k])

\* C9: a declaration with no ':' is passed over: the paragraph is returned,
\* with the prefix its other declarations give.
C9_MalformedIgnored ==
    Called /\ HasMalformedDeclaration(line) =>
        /\ Formatted
        /\ StartsWith(rich_line.value,
                      line_prefix
                      \o CssPrefix(CssDict(SelectSeq(Declarations(line), WellFormed), 1).items))

\* C10: a paragraph whose own <p> tag has no style attribute, in a chapter
\* with no FormattingOverride, starts with \qj\fi360.
C10_DefaultWithoutOwnStyle ==
    /\ Formatted
    /\ ~Contains(OwnTag(line), <<"s", "t", "y", "l", "e", "=">>)
    /\ ~HasFormatting(arc_number, chapter_number)
    => StartsWith(rich_line.value, line_prefix \o <<"\\", "q", "j", "\\", "f", "i", "3", "6", "0">>)

\* The paragraph after all substitutions: the body rich_textify emits.
TranscodedBody(paragraph) == Transcode(Special(paragraph))

\* s ends with p.
EndsWith(s, p) == Len(p) <= Len(s) /\ SubSeq(s, Len(s) - Len(p) + 1, Len(s)) = p

\* The body with the space that parts it from the prefix, and the terminator.
SpacedBody(body) ==
    (IF body # <<>> /\ body[1] = "\\" THEN <<>> ELSE Str.space) \o body \o line_suffix

\* C13: every paragraph the boilerplate filter does not drop (one with an
\* empty body included; paragraphs with an unmapped character reference or a
\* declaration without ':' set aside) is returned as prefix control block,
\* body and terminator, the body after a space unless it starts with a
\* control escape.
C13_EmptyBodyFormatted ==
    Called /\ UnmappedReferences = <<>> /\ ~HasMalformedDeclaration(line) =>
        With(TranscodedBody(line), LAMBDA body :
            LettersOnly(body) \notin Boilerplate =>
                /\ Formatted
                /\ StartsWith(rich_line.value, line_prefix)
                /\ EndsWith(rich_line.value, SpacedBody(body)))

---------------------------------------------------------------------------
(* Claims about main and get_chapter, checked under SpecMain. *)

\* The calls of get_chapter made for an arc.
CallsOf(arc) ==
    LET OfArc(call) == call.arc = arc
    IN  SelectSeq(calls, OfArc)

\* Three chapters of the arc have been processed as first, middle and last,
\* and the three calls of get_chapter have returned.
ThreeChapterArc(arc) ==
    /\ Len(CallsOf(arc)) = 3
    /\ [k \in 1..3 |-> CallsOf(arc)[k].position] = <<1, 0, 2>>
    /\ \A k \in 1..3 : CallsOf(arc)[k].raised = ""

\* The file of a joined arc.
JoinedPath(arc) == ChapterPath(TRUE, arc, 0, <<>>, index[arc].arc).path

BlockNames(file) == [k \in 1..Len(file) |-> file[k].block]

\* The blocks of a section up to the chapter title, and the end-of-arc marker.
SectionBlocks ==
    <<"headerl", "headerr", "headerf", "footerl", "footerr", "footerf", "sect", "page",
      "title">>

EndOfArcBlocks == <<"header", "footer", "sect", "page", "end_of_arc">>

IsFrame(name) == name \notin {"subtitle", "line"}

\* One file header, one cover page, three sections (headers and footers,
\* section break, heading, body) and one end-of-arc marker, in this order.
WellAssembled(file) ==
    /\ SelectSeq(BlockNames(file), IsFrame) =
           <<"file_header", "cover_page">> \o SectionBlocks \o SectionBlocks
           \o SectionBlocks \o EndOfArcBlocks
    /\ \A k \in 1..Len(file) :
           /\ file[k].block = "subtitle" => file[k - 1].block = "title"
           /\ file[k].block = "line" => file[k - 1].block \in {"title", "subtitle", "line"}

\* C3: in joined mode, once the three chapters of an arc have been processed
\* as first, middle and last, the arc file holds one file header, one cover
\* page, three section blocks and one end-of-arc marker, in this order.
C3_JoinedArcFile ==
    \A arc \in DOMAIN index :
        args.join /\ ThreeChapterArc(arc) =>
            /\ JoinedPath(arc) \in DOMAIN files
            /\ WellAssembled(files[JoinedPath(arc)])

\* C3 witness: the three chapters of arc 1 have been joined, each with a
\* body paragraph.
C3_Witness ==
    /\ args.join
    /\ ThreeChapterArc(1)
    /\ JoinedPath(1) \in DOMAIN files
    /\ Len(files[JoinedPath(1)]) > 34

\* main has ended: it returned, or an exception ended it.
Ended == pc \in {"done", "raised"}

\* C5: main ends only when every selected arc and every selected chapter has
\* been gone through: no failure of a chapter keeps the later ones from
\* being processed.
C5_FailureIsLocal ==
    Ended => /\ n_arcs = Len(selected_arcs)
             /\ n_chapters = Len(selected_chapters)

\* main was asked to download.
Downloading == args.download \/ args.arc # None \/ args.chapter # None

\* The arcs asked for that the Index holds, and those it does not.
ValidArcs == IF args.arc = None THEN DOMAIN index ELSE args.arc[1] \cap DOMAIN index

InvalidArcs == IF args.arc = None THEN {} ELSE args.arc[1] \ DOMAIN index

\* The chapters asked for that the arc holds, and those it does not.
ValidChapters(arc) ==
    IF args.chapter = None THEN DOMAIN index[arc].chapters
    ELSE args.chapter[1] \cap DOMAIN index[arc].chapters

InvalidChapters(arc) ==
    IF args.chapter = None THEN {} ELSE args.chapter[1] \ DOMAIN index[arc].chapters

\* The chapters get_chapter has been called for.
Processed == {<<calls[k].arc, calls[k].chapter>> : k \in 1..Len(calls)}

\* main has printed the text with the numbers.
Reported(text, numbers) ==
    \E n \in 1..Len(output) : output[n].text = text /\ output[n].data = numbers

ReportedArcs ==
    Reported("ERROR: selected arcs %s do not exist; automatically deselected",
             Sorted(InvalidArcs))

ReportedChapters(arc) ==
    Reported("ERROR: selected chapters %s do not exist; automatically deselected",
             Sorted(InvalidChapters(arc)))

\* C7 as claimed: when main returns, the chapters processed are the valid
\* chapters asked for of every valid arc asked for, and the arcs and chapters
\* the Index does not hold have been reported.
C7_Original ==
    pc = "done" /\ Downloading =>
        /\ Processed = {ac \in (DOMAIN index) \X (1..(MaxChapters + 1)) :
                            ac[1] \in ValidArcs /\ ac[2] \in ValidChapters(ac[1])}
        /\ InvalidArcs # {} => ReportedArcs

\* The first arc main goes through.
FirstArc == CHOOSE arc \in ValidArcs : \A other \in ValidArcs : arc <= other

\* The chapters main goes through in an arc: the chapter set counts for the
\* first arc only.
EffectiveChapters(arc) ==
    IF arc = FirstArc THEN ValidChapters(arc) ELSE DOMAIN index[arc].chapters

EffectiveSelection ==
    {ac \in (DOMAIN index) \X (1..(MaxChapters + 1)) :
         ac[1] \in ValidArcs /\ ac[2] \in EffectiveChapters(ac[1])}

\* C7 amended: arcs the Index does not hold are reported and dropped, and
\* with no valid arc nothing is processed; the chapter set is applied to the
\* first valid arc only (its chapters the arc does not hold are reported and
\* dropped, and with none valid the arc is skipped), every later arc is
\* processed whole; no other chapter is ever processed, and when main
\* returns all of these have been.
C7_ChapterSetOfFirstArc ==
    /\ Processed \subseteq EffectiveSelection
    /\ pc = "done" /\ Downloading => Processed = EffectiveSelection
    /\ pc # "main" /\ Downloading /\ InvalidArcs # {} => ReportedArcs
    /\ pc # "main" /\ Downloading /\ ValidArcs = {} =>
           /\ pc = "done"
           /\ calls = <<>>
           /\ Reported("ERROR: no valid arcs selected; automatically exiting", <<>>)
    /\ n_arcs >= 1 /\ InvalidChapters(FirstArc) # {} => ReportedChapters(FirstArc)
    /\ n_arcs >= 1 /\ args.chapter # None /\ ValidChapters(FirstArc) = {} =>
           /\ Reported("ERROR: no valid chapters selected; automatically skipping arc", <<>>)
           /\ \A chapter \in DOMAIN index[FirstArc].chapters :
                  <<FirstArc, chapter>> \notin Processed

\* C7 witness: main has returned from two arcs; no chapter asked for is in
\* the first, which was skipped, and the second was processed whole.
C7_Witness ==
    /\ pc = "done"
    /\ selected_arcs = <<1, 2>>
    /\ args.chapter # None
    /\ ValidChapters(1) = {}
    /\ Processed = {2} \X (DOMAIN index[2].chapters)

\* The last call of get_chapter main made, and what it was called with.
LastCall == calls[Len(calls)]

LastTitle == index[LastCall.arc].chapters[LastCall.chapter].chapter

LastPath ==
    ChapterPath(args.join, LastCall.arc, LastCall.chapter, LastTitle,
                index[LastCall.arc].arc).path

\* The pieces of a title between '(', ')', ':' and ';', trimmed, the empty
\* ones dropped.
TrimmedPieces(chapter_title) ==
    With(SplitTitle(chapter_title), LAMBDA pieces :
        SelectSeq([k \in 1..Len(pieces) |-> Strip(pieces[k])], NonEmpty))

\* The lines of the last chapter heading of a file: the title and, when
\* there is one, the subtitle.
HeadingLines(file) ==
    With(CHOOSE k \in 1..Len(file) :
             /\ file[k].block = "title"
             /\ \A j \in (k + 1)..Len(file) : file[j].block # "title", LAMBDA at :
        <<file[at].text>>
        \o (IF at < Len(file) /\ file[at + 1].block = "subtitle"
            THEN <<file[at + 1].text>> ELSE <<>>))

\* One line for one part, two for two, title and "subtitle; credit" for three.
HeadingOfParts(parts) ==
    IF Len(parts) = 1 THEN <<parts[1]>>
    ELSE IF Len(parts) = 2 THEN <<parts[1], parts[2]>>
    ELSE <<parts[1], parts[2] \o <<";", " ">> \o parts[3]>>

\* C12: when get_chapter has returned, the title parts it used are the
\* trimmed pieces of the chapter title with every empty piece dropped, none
\* of them is empty, and the heading it wrote is one line for one part, two
\* lines for two, title and "subtitle; credit" for three.
C12_TitleParts ==
    calls # <<>> /\ LastCall.raised = "" =>
        /\ TitleParts(LastTitle) = TrimmedPieces(LastTitle)
        /\ \A k \in 1..Len(TitleParts(LastTitle)) : TitleParts(LastTitle)[k] # <<>>
        /\ Len(TrimmedPieces(LastTitle)) \in 1..3
        /\ HeadingLines(files[LastPath]) = HeadingOfParts(TrimmedPieces(LastTitle))

\* main has gone through the chapters selected of an arc, and every call of
\* get_chapter has returned.
ArcFinished == pc = "arcs" /\ n_arcs >= 1 /\ selected_chapters # <<>>

\* How many blocks of the file have the name.
CountBlocks(file, name) == Cardinality({k \in 1..Len(file) : file[k].block = name})

\* The positions main passes for k chapters: first, middle ..., last.
FirstMiddleLast(k) == [n \in 1..k |-> IF n = 1 THEN 1 ELSE IF n = k THEN 2 ELSE 0]

\* C14: in joined mode, when the k >= 1 chapters selected of an arc have been
\* processed, the arc file starts with its one file header and ends with its
\* one end-of-arc marker (which closes the group the header opened), and for
\* k >= 2 the positions passed were first, middle ..., last.
C14_JoinedArcClosed ==
    args.join /\ ArcFinished =>
        /\ JoinedPath(arc_number) \in DOMAIN files
        /\ With(files[JoinedPath(arc_number)], LAMBDA file :
               /\ file # <<>>
               /\ file[1].block = "file_header"
               /\ CountBlocks(file, "file_header") = 1
               /\ file[Len(file)].block = "end_of_arc"
               /\ CountBlocks(file, "end_of_arc") = 1)
        /\ Len(selected_chapters) >= 2 =>
               [n \in 1..Len(CallsOf(arc_number)) |-> CallsOf(arc_number)[n].position]
                   = FirstMiddleLast(Len(selected_chapters))

====
